---- MODULE Spec2Model ----
(***************************************************************************)
(* A model of the rustdmg execution engine: the PPU line/mode machine      *)
(* (src/src/ppu/mod.rs), the memory bus and its I/O ports                  *)
(* (src/src/bus/mod.rs, src/src/bus/io_ports.rs, src/src/bus/cartridge.rs, *)
(* src/src/memory/bootrom.rs) and the CPU (src/src/cpu/mod.rs,             *)
(* src/src/cpu/register.rs, src/src/cpu/instruction.rs).                   *)
(*                                                                         *)
(* A Rust panic aborts the emulator.  The model keeps the state as it was  *)
(* at the moment of the panic and raises the flag "panicked"; no operation *)
(* is enabled afterwards.                                                  *)
(***************************************************************************)
EXTENDS Integers, Sequences, FiniteSets, TLC

VARIABLES
    cpu,        \* the CPU struct: registers, cycle_count, decode registers
    bus,        \* the Bus struct: overlay flag and the memory zones
    ppu,        \* the PPU struct shared by the bus and the I/O ports
    panicked,   \* TRUE once a panic!() (or an out-of-range index) aborted the run
    overflow_checks,  \* the build panics on integer overflow (debug profile)
                      \* or wraps (release profile)
    last        \* the most recent operation, its arguments, its result and
                \* the CPU, bus and PPU as they were before it

vars == <<cpu, bus, ppu, panicked, overflow_checks, last>>

(***************************************************************************)
(* Bounds of the model.                                                    *)
(***************************************************************************)
\* PPU.cycle() is called at most this many times in SpecPPU (two frames and a bit)
MaxPpuCycles == 141000
\* no step starts once the CPU's cycle_count has reached this
MaxCpuCycles == 64
\* operations on the bus in a run of SpecBus
MaxBusOps == 2
\* operations on the CPU's registers and stack in a run of SpecCpu
MaxCpuOps == 3
\* steps in a run of SpecOp
MaxOpSteps == 3

(***************************************************************************)
(* PPU: src/src/ppu/mod.rs                                                 *)
(***************************************************************************)
OAM_SEARCH_DURATION == 20 * 4
PIXEL_TRANSFER_DURATION == 43 * 4
HBLANK_DURATION == 51 * 4
LINE_TOTAL_DURATION == OAM_SEARCH_DURATION + PIXEL_TRANSFER_DURATION + HBLANK_DURATION
DRAWN_LINES == 144
VBLANK_LINES == 10

PpuMode == {"OAM", "PixelTransfer", "HBlank", "VBlank"}

mode_duration_one_line_vblank(mode) ==
    CASE mode = "OAM" -> OAM_SEARCH_DURATION
      [] mode = "PixelTransfer" -> PIXEL_TRANSFER_DURATION
      [] mode = "HBlank" -> HBLANK_DURATION
      [] mode = "VBlank" -> LINE_TOTAL_DURATION

mode_duration_swapped(mode) ==
    CASE mode = "OAM" -> PIXEL_TRANSFER_DURATION
      [] mode = "PixelTransfer" -> OAM_SEARCH_DURATION
      [] mode = "HBlank" -> HBLANK_DURATION
      [] mode = "VBlank" -> VBLANK_LINES * LINE_TOTAL_DURATION

\* mode_duration with the three line modes counted in machine cycles (a
\* quarter of their clock cycles)
mode_duration_in_machine_cycles(mode) ==
    CASE mode = "OAM" -> OAM_SEARCH_DURATION \div 4
      [] mode = "PixelTransfer" -> PIXEL_TRANSFER_DURATION \div 4
      [] mode = "HBlank" -> HBLANK_DURATION \div 4
      [] mode = "VBlank" -> VBLANK_LINES * LINE_TOTAL_DURATION

mode_duration(mode) ==
    CASE mode = "OAM" -> OAM_SEARCH_DURATION
      [] mode = "PixelTransfer" -> PIXEL_TRANSFER_DURATION
      [] mode = "HBlank" -> HBLANK_DURATION
      [] mode = "VBlank" -> VBLANK_LINES * LINE_TOTAL_DURATION

next_mode_without_hblank(mode, current_line) ==
    CASE mode = "OAM" -> "PixelTransfer"
      [] mode = "PixelTransfer" -> IF current_line < DRAWN_LINES THEN "OAM" ELSE "VBlank"
      [] mode = "HBlank" -> IF current_line < DRAWN_LINES THEN "OAM" ELSE "VBlank"
      [] mode = "VBlank" -> "OAM"

next_mode(mode, current_line) ==
    CASE mode = "OAM" -> "PixelTransfer"
      [] mode = "PixelTransfer" -> "HBlank"
      [] mode = "HBlank" -> IF current_line < DRAWN_LINES THEN "OAM" ELSE "VBlank"
      [] mode = "VBlank" -> "OAM"

\* PPU::new(); bg_scroll_y is the field the I/O ports read and write at 0xFF42
PPU_new ==
    [ cycle_count            |-> 0,
      current_line           |-> 0,
      current_mode           |-> "OAM",
      cycles_in_current_mode |-> 0,
      cycles_in_current_line |-> 0,
      bg_scroll_y            |-> 0 ]

\* the line after "current_line += 1" and the wrap that follows it
next_line_wrapping_late(current_line) ==
    IF current_line + 1 > DRAWN_LINES + VBLANK_LINES THEN 0 ELSE current_line + 1

next_line(current_line) ==
    IF current_line + 1 >= DRAWN_LINES + VBLANK_LINES THEN 0 ELSE current_line + 1

\* PPU::cycle() choosing the next mode from the line before it is advanced
PPU_cycle_mode_before_line(p) ==
    LET in_mode == p.cycles_in_current_mode + 1
        in_line == p.cycles_in_current_line + 1
        duration == mode_duration(p.current_mode)
        line_ends == in_line = LINE_TOTAL_DURATION
        line == IF line_ends THEN next_line(p.current_line) ELSE p.current_line
        mode_ends == duration > 0 /\ in_mode >= duration
    IN  [ cycle_count            |-> p.cycle_count + 1,
          current_line           |-> line,
          current_mode           |-> IF mode_ends
                                     THEN next_mode(p.current_mode, p.current_line)
                                     ELSE p.current_mode,
          cycles_in_current_mode |-> IF mode_ends THEN 0 ELSE in_mode,
          cycles_in_current_line |-> IF line_ends THEN 0 ELSE in_line,
          bg_scroll_y            |-> p.bg_scroll_y ]

\* PPU::cycle(): the three counters are incremented, then the line is advanced,
\* then (seeing the advanced line) the mode
PPU_cycle(p) ==
    LET in_mode == p.cycles_in_current_mode + 1
        in_line == p.cycles_in_current_line + 1
        duration == mode_duration(p.current_mode)
        line_ends == in_line = LINE_TOTAL_DURATION
        line == IF line_ends THEN next_line(p.current_line) ELSE p.current_line
        mode_ends == duration > 0 /\ in_mode >= duration
    IN  [ cycle_count            |-> p.cycle_count + 1,
          current_line           |-> line,
          current_mode           |-> IF mode_ends THEN next_mode(p.current_mode, line)
                                     ELSE p.current_mode,
          cycles_in_current_mode |-> IF mode_ends THEN 0 ELSE in_mode,
          cycles_in_current_line |-> IF line_ends THEN 0 ELSE in_line,
          bg_scroll_y            |-> p.bg_scroll_y ]

\* the PPU after n calls of bus.cycle(), evaluated by halving n; the test of
\* p.cycle_count has p evaluated before it is cycled further
RECURSIVE PPU_cycled(_, _)
PPU_cycled(p, n) ==
    IF n = 0 \/ p.cycle_count < 0 THEN p
    ELSE IF n = 1 THEN PPU_cycle(p)
    ELSE PPU_cycled(PPU_cycled(p, n \div 2), n - (n \div 2))

(***************************************************************************)
(* Bytes, words and bit operations                                         *)
(***************************************************************************)
Byte == 0 .. 255
Word == 0 .. 65535

\* v & bit != 0, for bit a power of two
BitSet(v, bit) == (v \div bit) % 2 = 1

(***************************************************************************)
(* Memory zones: src/src/bus/ram_bank.rs, src/src/bus/cartridge.rs,        *)
(* src/src/memory/bootrom.rs                                               *)
(*                                                                         *)
(* A Vec<u8> of a ROM is a sequence (index i of the Vec is element i+1).   *)
(* A RAM bank is vec![0; size]: it is kept as the function from the local  *)
(* addresses that hold a non-zero byte to that byte.                       *)
(***************************************************************************)
BOOT_ROM_SIZE == 256
ROM_BANK_SIZE == 16384

HIGH_RAM_BANK_SIZE == 127
HIGH_RAM_BASE_ADDRESS == 65408
WORK_RAM_BANK_SIZE == 4096
WORK_RAM_BASE_ADDRESS == 49152
VIDEO_RAM_SIZE == 8192
VIDEO_RAM_BASE_ADDRESS == 32768
IO_PORTS_SIZE == 128
IO_PORTS_BASE_ADDRESS == 65280

EmptyData == [i \in {} |-> 0]

\* data[i] of a zero-initialised Vec kept sparsely
Cell(data, i) == IF i \in DOMAIN data THEN data[i] ELSE 0

\* data[i] = value
SetCell(data, i, value) ==
    IF value = 0
    THEN [j \in (DOMAIN data) \ {i} |-> data[j]]
    ELSE [j \in (DOMAIN data) \cup {i} |-> IF j = i THEN value ELSE data[j]]

RAMBank_new(base, size) == [base_address |-> base, size |-> size, data |-> EmptyData]

\* RAMBank::global_address_to_local_address
RAMBank_local(bank, address) == address - bank.base_address

\* an access to RAMBank.data panics when the index is outside the Vec
RAMBank_panics(bank, address) ==
    ~ (RAMBank_local(bank, address) \in 0 .. bank.size - 1)

RAMBank_read(bank, address) == Cell(bank.data, RAMBank_local(bank, address))

RAMBank_write(bank, address, value) ==
    [bank EXCEPT !.data = SetCell(@, RAMBank_local(bank, address), value)]

\* BootROM::read indexes data; BootROM::write always panics
BootROM_read_panics(rom, address) == address >= Len(rom)
BootROM_read(rom, address) == rom[address + 1]

\* RomBank of bank_number 0: the local address is the global address;
\* read and write both index data
RomBank_panics(rom, address) == address >= Len(rom)
RomBank_read(rom, address) == rom[address + 1]
RomBank_write(rom, address, value) == [rom EXCEPT ![address + 1] = value]

(***************************************************************************)
(* I/O ports: src/src/bus/io_ports.rs                                      *)
(***************************************************************************)
IO_SOUND_CHANNEL_CONTROL_NR50 == 65316
IO_SOUND_ON_OFF_NR52 == 65318
IO_SOUND_CH1_SOUND_LENGTH_WAVE_PATTERN_DUTY_NR11 == 65297
IO_SOUND_CH1_VOLUME_ENVELOPE_NR12 == 65298
IO_SOUND_CH1_FREQUENCY_LO_NR13 == 65299
IO_SOUND_CH1_FREQUENCY_HI_NR14 == 65300
IO_SOUND_OUTPUT_TERMINAL_NR51 == 65317
IO_LCD_CONTROL == 65344
IO_LCD_SCROLL_Y == 65346
IO_LCD_Y_COORDINATE == 65348
IO_LDC_BG_PALETTE_DATA == 65351
IO_BOOT_ROM_CONTROL == 65360

\* the write arms that only print "Not implemented"
IOStubPorts ==
    { IO_SOUND_CHANNEL_CONTROL_NR50, IO_SOUND_ON_OFF_NR52,
      IO_SOUND_CH1_SOUND_LENGTH_WAVE_PATTERN_DUTY_NR11,
      IO_SOUND_CH1_VOLUME_ENVELOPE_NR12, IO_SOUND_CH1_FREQUENCY_LO_NR13,
      IO_SOUND_CH1_FREQUENCY_HI_NR14, IO_SOUND_OUTPUT_TERMINAL_NR51,
      IO_LDC_BG_PALETTE_DATA, IO_LCD_CONTROL }

IOPorts_read_ports_swapped(p, address) ==
    IF address = IO_LCD_Y_COORDINATE THEN p.bg_scroll_y ELSE p.current_line

\* IOPorts::read: LY and SCY are the only readable ports
IOPorts_read_panics(address) ==
    address \notin {IO_LCD_Y_COORDINATE, IO_LCD_SCROLL_Y}

IOPorts_read(p, address) ==
    IF address = IO_LCD_Y_COORDINATE THEN p.current_line ELSE p.bg_scroll_y

IOPorts_write_panics_unknown_port_accepted(address, value) ==
    CASE address \in IOStubPorts -> FALSE
      [] address = IO_LCD_SCROLL_Y -> FALSE
      [] address = IO_BOOT_ROM_CONTROL -> value # 1
      [] OTHER -> FALSE

\* IOPorts::write: the match panics for an unknown port and for a value
\* other than 1 written to 0xFF50
IOPorts_write_panics(address, value) ==
    CASE address \in IOStubPorts -> FALSE
      [] address = IO_LCD_SCROLL_Y -> FALSE
      [] address = IO_BOOT_ROM_CONTROL -> value # 1
      [] OTHER -> TRUE

\* the byte is stored in data after the match
IOPorts_write_data(data, address, value) ==
    SetCell(data, address - IO_PORTS_BASE_ADDRESS, value)

IOPorts_write_ppu_scroll_dropped(p, address, value) == p

\* the only PPU field a port write changes is bg_scroll_y
IOPorts_write_ppu(p, address, value) ==
    IF address = IO_LCD_SCROLL_Y THEN [p EXCEPT !.bg_scroll_y = value] ELSE p

(***************************************************************************)
(* Bus: src/src/bus/mod.rs                                                 *)
(***************************************************************************)
\* Bus::new_from_vecs / Bus::new: the overlay starts active; the cartridge is
\* Cartridge::new_dummy_cartridge(data), one bank 0 holding the bytes given
Bus_new(boot_rom_data, cart_rom_bank_zero_data) ==
    [ boot_rom_active |-> TRUE,
      boot_rom        |-> boot_rom_data,
      cartridge       |-> cart_rom_bank_zero_data,
      work_ram        |-> RAMBank_new(WORK_RAM_BASE_ADDRESS, WORK_RAM_BANK_SIZE),
      video_ram       |-> RAMBank_new(VIDEO_RAM_BASE_ADDRESS, VIDEO_RAM_SIZE),
      io_ports        |-> EmptyData,
      high_ram        |-> RAMBank_new(HIGH_RAM_BASE_ADDRESS, HIGH_RAM_BANK_SIZE) ]

\* Bus::get_memory_zone_from_address; "panic" stands for the three panic!() exits
get_memory_zone_from_address(b, address) ==
    CASE b.boot_rom_active /\ address < BOOT_ROM_SIZE -> "boot_rom"
      [] address < ROM_BANK_SIZE -> "cartridge"
      [] address < ROM_BANK_SIZE * 2 -> "panic"
      [] address < 40960 -> "video_ram"
      [] address < 49152 -> "panic"
      [] address < 53248 -> "work_ram"
      [] address >= IO_PORTS_BASE_ADDRESS
           /\ address < IO_PORTS_BASE_ADDRESS + IO_PORTS_SIZE -> "io_ports"
      [] address >= HIGH_RAM_BASE_ADDRESS
           /\ address < HIGH_RAM_BASE_ADDRESS + HIGH_RAM_BANK_SIZE -> "high_ram"
      [] OTHER -> "panic"

\* Bus::read(address) panics
Bus_read_panics(b, address) ==
    LET zone == get_memory_zone_from_address(b, address)
    IN  CASE zone = "boot_rom" -> BootROM_read_panics(b.boot_rom, address)
          [] zone = "cartridge" -> RomBank_panics(b.cartridge, address)
          [] zone = "video_ram" -> RAMBank_panics(b.video_ram, address)
          [] zone = "work_ram" -> RAMBank_panics(b.work_ram, address)
          [] zone = "io_ports" -> IOPorts_read_panics(address)
          [] zone = "high_ram" -> RAMBank_panics(b.high_ram, address)
          [] OTHER -> TRUE

\* the byte Bus::read(address) returns when it does not panic
Bus_read(b, p, address) ==
    LET zone == get_memory_zone_from_address(b, address)
    IN  CASE zone = "boot_rom" -> BootROM_read(b.boot_rom, address)
          [] zone = "cartridge" -> RomBank_read(b.cartridge, address)
          [] zone = "video_ram" -> RAMBank_read(b.video_ram, address)
          [] zone = "work_ram" -> RAMBank_read(b.work_ram, address)
          [] zone = "io_ports" -> IOPorts_read(p, address)
          [] zone = "high_ram" -> RAMBank_read(b.high_ram, address)

Bus_write_panics_boot_rom_writable(b, address, value) ==
    LET zone == get_memory_zone_from_address(b, address)
    IN  CASE zone = "boot_rom" -> BootROM_read_panics(b.boot_rom, address)
          [] zone = "cartridge" -> RomBank_panics(b.cartridge, address)
          [] zone = "video_ram" -> RAMBank_panics(b.video_ram, address)
          [] zone = "work_ram" -> RAMBank_panics(b.work_ram, address)
          [] zone = "io_ports" -> IOPorts_write_panics(address, value)
          [] zone = "high_ram" -> RAMBank_panics(b.high_ram, address)
          [] OTHER -> TRUE

Bus_write_panics_unmapped_ignored(b, address, value) ==
    LET zone == get_memory_zone_from_address(b, address)
    IN  CASE zone = "boot_rom" -> TRUE
          [] zone = "cartridge" -> RomBank_panics(b.cartridge, address)
          [] zone = "video_ram" -> RAMBank_panics(b.video_ram, address)
          [] zone = "work_ram" -> RAMBank_panics(b.work_ram, address)
          [] zone = "io_ports" -> IOPorts_write_panics(address, value)
          [] zone = "high_ram" -> RAMBank_panics(b.high_ram, address)
          [] OTHER -> FALSE

\* Bus::write(address, value) panics
Bus_write_panics(b, address, value) ==
    LET zone == get_memory_zone_from_address(b, address)
    IN  CASE zone = "boot_rom" -> TRUE
          [] zone = "cartridge" -> RomBank_panics(b.cartridge, address)
          [] zone = "video_ram" -> RAMBank_panics(b.video_ram, address)
          [] zone = "work_ram" -> RAMBank_panics(b.work_ram, address)
          [] zone = "io_ports" -> IOPorts_write_panics(address, value)
          [] zone = "high_ram" -> RAMBank_panics(b.high_ram, address)
          [] OTHER -> TRUE

Bus_write_value_one_disables_overlay(b, address, value) ==
    LET zone == get_memory_zone_from_address(b, address)
    IN  CASE zone = "cartridge" ->
               [b EXCEPT !.cartridge = RomBank_write(@, address, value)]
          [] zone = "video_ram" ->
               [b EXCEPT !.video_ram = RAMBank_write(@, address, value)]
          [] zone = "work_ram" ->
               [b EXCEPT !.work_ram = RAMBank_write(@, address, value)]
          [] zone = "io_ports" ->
               [b EXCEPT !.io_ports = IOPorts_write_data(@, address, value),
                         !.boot_rom_active = IF value = 1 THEN FALSE ELSE @]
          [] zone = "high_ram" ->
               [b EXCEPT !.high_ram = RAMBank_write(@, address, value)]
          [] OTHER -> b

\* the bus after a Bus::write(address, value) that does not panic: the write
\* is dispatched to the zone and nothing else of the bus is touched
Bus_write(b, address, value) ==
    LET zone == get_memory_zone_from_address(b, address)
    IN  CASE zone = "cartridge" ->
               [b EXCEPT !.cartridge = RomBank_write(@, address, value)]
          [] zone = "video_ram" ->
               [b EXCEPT !.video_ram = RAMBank_write(@, address, value)]
          [] zone = "work_ram" ->
               [b EXCEPT !.work_ram = RAMBank_write(@, address, value)]
          [] zone = "io_ports" ->
               [b EXCEPT !.io_ports = IOPorts_write_data(@, address, value)]
          [] zone = "high_ram" ->
               [b EXCEPT !.high_ram = RAMBank_write(@, address, value)]
          [] OTHER -> b

\* the PPU after a Bus::write(address, value) that does not panic
Bus_write_ppu(b, p, address, value) ==
    IF get_memory_zone_from_address(b, address) = "io_ports"
    THEN IOPorts_write_ppu(p, address, value)
    ELSE p

(***************************************************************************)
(* Registers: src/src/cpu/register.rs                                      *)
(*                                                                         *)
(* A Register16bit is its u16 value.  The AF register is the pair of the   *)
(* fields reg_a (AFRegister.a) and flags (AFRegister.flags.bits).          *)
(***************************************************************************)
Z == 128
N == 64
H == 32
C == 16

\* bitflags: contains / insert / remove / set on the bits of the flag byte
contains(bits, flag) == BitSet(bits, flag)
insert(bits, flag) == IF BitSet(bits, flag) THEN bits ELSE bits + flag
remove(bits, flag) == IF BitSet(bits, flag) THEN bits - flag ELSE bits
set(bits, flag, value) == IF value THEN insert(bits, flag) ELSE remove(bits, flag)

read_higher(value) == value \div 256
read_lower(value) == value % 256
write_higher(value, byte) == (value % 256) + byte * 256
write_lower(value, byte) == (value \div 256) * 256 + byte

\* u16::overflowing_add(..).0 and u8::overflowing_add(..).0
overflowing_add(value, addend) == (value + addend) % 65536
overflowing_add_u8(value, addend) == (value + addend) % 256

\* the 8-bit halves by the pair and accessor the instruction table names:
\* "F" is the lower half of AF (the flag byte)
read_subreg(c, r) ==
    CASE r = "A" -> c.reg_a
      [] r = "F" -> c.flags
      [] r = "B" -> read_higher(c.reg_bc)
      [] r = "C" -> read_lower(c.reg_bc)
      [] r = "D" -> read_higher(c.reg_de)
      [] r = "E" -> read_lower(c.reg_de)
      [] r = "H" -> read_higher(c.reg_hl)
      [] r = "L" -> read_lower(c.reg_hl)

write_subreg(c, r, byte) ==
    CASE r = "A" -> [c EXCEPT !.reg_a = byte]
      [] r = "F" -> [c EXCEPT !.flags = byte]
      [] r = "B" -> [c EXCEPT !.reg_bc = write_higher(@, byte)]
      [] r = "C" -> [c EXCEPT !.reg_bc = write_lower(@, byte)]
      [] r = "D" -> [c EXCEPT !.reg_de = write_higher(@, byte)]
      [] r = "E" -> [c EXCEPT !.reg_de = write_lower(@, byte)]
      [] r = "H" -> [c EXCEPT !.reg_hl = write_higher(@, byte)]
      [] r = "L" -> [c EXCEPT !.reg_hl = write_lower(@, byte)]

\* AFRegister::read: (a << 8) + flags.bits
AFRegister_read(c) == c.reg_a * 256 + c.flags

\* AFRegister::write: a = value >> 8, flags.bits = value as u8
AFRegister_write(c, value) ==
    [c EXCEPT !.reg_a = value \div 256, !.flags = value % 256]

\* DMGRegister::read / write of the register pair named p
read(c, p) == IF p = "reg_af" THEN AFRegister_read(c) ELSE c[p]
write(c, p, value) ==
    IF p = "reg_af" THEN AFRegister_write(c, value) ELSE [c EXCEPT ![p] = value]

(***************************************************************************)
(* CPU: src/src/cpu/mod.rs                                                 *)
(*                                                                         *)
(* The operations act on a machine m = [cpu, bus, ppu, panicked,           *)
(* overflow_checks].  Rust runs their statements in order and a panic      *)
(* stops the run where it happens: every operation leaves a panicked       *)
(* machine as it is.                                                       *)
(***************************************************************************)
\* CPU::new
CPU_new ==
    [ reg_a |-> 0, flags |-> 0, reg_bc |-> 0, reg_de |-> 0, reg_hl |-> 0,
      stack_pointer |-> 0, program_counter |-> 0, cycle_count |-> 0,
      debug |-> FALSE, reg_instruction |-> 0, reg_instruction_is_cb |-> FALSE,
      instruction_address |-> 0, interrupts_enabled |-> TRUE ]

\* "let v = ..." followed by the statements Op: v is computed once
Let(v, Op(_)) == Op(v)

Panic(m) == [m EXCEPT !.panicked = TRUE]

\* cpu.<field> = value
SetCpu(m, c) == IF m.panicked THEN m ELSE [m EXCEPT !.cpu = c]

\* cpu.cycle_count += n
AddCycles(m, n) ==
    IF m.panicked THEN m ELSE [m EXCEPT !.cpu.cycle_count = @ + n]

\* cpu.bus.write(address, value)
BusWrite(m, address, value) ==
    IF m.panicked THEN m
    ELSE IF Bus_write_panics(m.bus, address, value) THEN Panic(m)
    ELSE [m EXCEPT !.bus = Bus_write(m.bus, address, value),
                   !.ppu = Bus_write_ppu(m.bus, m.ppu, address, value)]

\* cpu.bus.read(address): the machine afterwards and the byte read
BusRead(m, address) ==
    IF m.panicked THEN [m |-> m, v |-> 0]
    ELSE IF Bus_read_panics(m.bus, address) THEN [m |-> Panic(m), v |-> 0]
    ELSE [m |-> m, v |-> Bus_read(m.bus, m.ppu, address)]

\* Register16bit::inc on the program counter (value += 1); the read of
\* [0xFFFF] that would precede an overflowing inc always panics
IncPc(m) ==
    IF m.panicked THEN m
    ELSE [m EXCEPT !.cpu.program_counter = (@ + 1) % 65536]

pop_u8_from_pc(m) ==
    Let(BusRead(m, m.cpu.program_counter), LAMBDA rd :
    [m |-> IncPc(rd.m), v |-> rd.v])

\* low byte first, then the high byte
pop_u16_from_pc(m) ==
    Let(pop_u8_from_pc(m), LAMBDA lo :
    Let(pop_u8_from_pc(lo.m), LAMBDA hi :
    [m |-> hi.m, v |-> lo.v + hi.v * 256]))

\* SP is decremented (wrapping), then the byte is written at [SP]
push_u8_to_stack(m, value) ==
    IF m.panicked THEN m
    ELSE Let(overflowing_add(m.cpu.stack_pointer, 65535), LAMBDA sp :
         BusWrite([m EXCEPT !.cpu.stack_pointer = sp], sp, value))

push_u16_to_stack_high_byte_first(m, value) ==
    push_u8_to_stack(push_u8_to_stack(m, value \div 256), value % 256)

\* the low byte is pushed first, then the high byte
push_u16_to_stack(m, value) ==
    push_u8_to_stack(push_u8_to_stack(m, value % 256), value \div 256)

\* the byte at [SP] is read, then SP is incremented (wrapping)
pop_u8_from_stack(m) ==
    Let(BusRead(m, m.cpu.stack_pointer), LAMBDA rd :
    [m |-> IF rd.m.panicked THEN rd.m
           ELSE [rd.m EXCEPT !.cpu.stack_pointer = overflowing_add(@, 1)],
     v |-> rd.v])

pop_u16_from_stack_low_byte_first(m) ==
    Let(pop_u8_from_stack(m), LAMBDA lo :
    Let(pop_u8_from_stack(lo.m), LAMBDA hi :
    [m |-> hi.m, v |-> hi.v * 256 + lo.v]))

\* the first byte popped is the high byte
pop_u16_from_stack(m) ==
    Let(pop_u8_from_stack(m), LAMBDA hi :
    Let(pop_u8_from_stack(hi.m), LAMBDA lo :
    [m |-> lo.m, v |-> hi.v * 256 + lo.v]))

(***************************************************************************)
(* Instruction tables: src/src/cpu/instruction.rs                          *)
(*                                                                         *)
(* One entry per entry of the source tables, in the source's order: kind   *)
(* is the macro (or the inline closure), r the 8-bit register given by the *)
(* macro's register and accessor arguments, p the 16-bit register (or the  *)
(* second 8-bit register), n the pointer addition or the truth value a     *)
(* condition flag is compared with.                                        *)
(***************************************************************************)
INSTRUCTIONS_NOCB ==
    << [opcode |-> 0, kind |-> "nop", r |-> "", p |-> "", n |-> 0],
       [opcode |-> 1, kind |-> "not_implemented", r |-> "", p |-> "", n |-> 0],
       [opcode |-> 2, kind |-> "ld_pointer_register", r |-> "A", p |-> "reg_bc", n |-> 0],
       [opcode |-> 3, kind |-> "inc_u16", r |-> "", p |-> "reg_bc", n |-> 0],
       [opcode |-> 4, kind |-> "inc_u8", r |-> "B", p |-> "", n |-> 0],
       [opcode |-> 5, kind |-> "dec_u8", r |-> "B", p |-> "", n |-> 0],
       [opcode |-> 6, kind |-> "ld_8bit_register_immediate", r |-> "B", p |-> "", n |-> 0],
       [opcode |-> 10, kind |-> "ld_register_pointer", r |-> "A", p |-> "reg_bc", n |-> 0],
       [opcode |-> 11, kind |-> "dec_u16", r |-> "", p |-> "reg_bc", n |-> 0],
       [opcode |-> 12, kind |-> "inc_u8", r |-> "C", p |-> "", n |-> 0],
       [opcode |-> 13, kind |-> "dec_u8", r |-> "C", p |-> "", n |-> 0],
       [opcode |-> 14, kind |-> "ld_8bit_register_immediate", r |-> "C", p |-> "", n |-> 0],
       [opcode |-> 17, kind |-> "ld_16bit_register_immediate", r |-> "", p |-> "reg_de", n |-> 0],
       [opcode |-> 18, kind |-> "ld_pointer_register", r |-> "A", p |-> "reg_de", n |-> 0],
       [opcode |-> 19, kind |-> "inc_u16", r |-> "", p |-> "reg_de", n |-> 0],
       [opcode |-> 20, kind |-> "inc_u8", r |-> "D", p |-> "", n |-> 0],
       [opcode |-> 21, kind |-> "dec_u8", r |-> "D", p |-> "", n |-> 0],
       [opcode |-> 22, kind |-> "ld_8bit_register_immediate", r |-> "D", p |-> "", n |-> 0],
       [opcode |-> 23, kind |-> "rotate_left_trough_carry_fast", r |-> "A", p |-> "", n |-> 0],
       [opcode |-> 24, kind |-> "jump_relative_always", r |-> "", p |-> "", n |-> 0],
       [opcode |-> 26, kind |-> "ld_register_pointer", r |-> "A", p |-> "reg_de", n |-> 0],
       [opcode |-> 27, kind |-> "dec_u16", r |-> "", p |-> "reg_de", n |-> 0],
       [opcode |-> 28, kind |-> "inc_u8", r |-> "E", p |-> "", n |-> 0],
       [opcode |-> 29, kind |-> "dec_u8", r |-> "E", p |-> "", n |-> 0],
       [opcode |-> 30, kind |-> "ld_8bit_register_immediate", r |-> "E", p |-> "", n |-> 0],
       [opcode |-> 32, kind |-> "jump_relative", r |-> "Z", p |-> "", n |-> 0],
       [opcode |-> 33, kind |-> "ld_16bit_register_immediate", r |-> "", p |-> "reg_hl", n |-> 0],
       [opcode |-> 34, kind |-> "ld_pointer_register", r |-> "A", p |-> "reg_hl", n |-> 1],
       [opcode |-> 35, kind |-> "inc_u16", r |-> "", p |-> "reg_hl", n |-> 0],
       [opcode |-> 36, kind |-> "inc_u8", r |-> "H", p |-> "", n |-> 0],
       [opcode |-> 37, kind |-> "dec_u8", r |-> "H", p |-> "", n |-> 0],
       [opcode |-> 38, kind |-> "ld_8bit_register_immediate", r |-> "H", p |-> "", n |-> 0],
       [opcode |-> 40, kind |-> "jump_relative", r |-> "Z", p |-> "", n |-> 1],
       [opcode |-> 42, kind |-> "ld_register_pointer", r |-> "A", p |-> "reg_hl", n |-> 1],
       [opcode |-> 43, kind |-> "dec_u16", r |-> "", p |-> "reg_hl", n |-> 0],
       [opcode |-> 44, kind |-> "inc_u8", r |-> "L", p |-> "", n |-> 0],
       [opcode |-> 45, kind |-> "dec_u8", r |-> "L", p |-> "", n |-> 0],
       [opcode |-> 46, kind |-> "ld_8bit_register_immediate", r |-> "L", p |-> "", n |-> 0],
       [opcode |-> 48, kind |-> "jump_relative", r |-> "C", p |-> "", n |-> 0],
       [opcode |-> 49, kind |-> "ld_16bit_register_immediate", r |-> "", p |-> "stack_pointer", n |-> 0],
       [opcode |-> 50, kind |-> "ld_pointer_register", r |-> "A", p |-> "reg_hl", n |-> 65535],
       [opcode |-> 51, kind |-> "inc_u16", r |-> "", p |-> "stack_pointer", n |-> 0],
       [opcode |-> 56, kind |-> "jump_relative", r |-> "C", p |-> "", n |-> 1],
       [opcode |-> 58, kind |-> "ld_register_pointer", r |-> "A", p |-> "reg_hl", n |-> 65535],
       [opcode |-> 59, kind |-> "dec_u16", r |-> "", p |-> "stack_pointer", n |-> 0],
       [opcode |-> 60, kind |-> "inc_u8", r |-> "A", p |-> "", n |-> 0],
       [opcode |-> 61, kind |-> "dec_u8", r |-> "A", p |-> "", n |-> 0],
       [opcode |-> 62, kind |-> "ld_8bit_register_immediate", r |-> "A", p |-> "", n |-> 0],
       [opcode |-> 64, kind |-> "ld_8bit_register_register", r |-> "B", p |-> "B", n |-> 0],
       [opcode |-> 65, kind |-> "ld_8bit_register_register", r |-> "B", p |-> "C", n |-> 0],
       [opcode |-> 66, kind |-> "ld_8bit_register_register", r |-> "B", p |-> "D", n |-> 0],
       [opcode |-> 67, kind |-> "ld_8bit_register_register", r |-> "B", p |-> "E", n |-> 0],
       [opcode |-> 68, kind |-> "ld_8bit_register_register", r |-> "B", p |-> "H", n |-> 0],
       [opcode |-> 69, kind |-> "ld_8bit_register_register", r |-> "B", p |-> "L", n |-> 0],
       [opcode |-> 70, kind |-> "ld_register_pointer", r |-> "B", p |-> "reg_hl", n |-> 0],
       [opcode |-> 71, kind |-> "ld_8bit_register_register", r |-> "B", p |-> "A", n |-> 0],
       [opcode |-> 72, kind |-> "ld_8bit_register_register", r |-> "C", p |-> "B", n |-> 0],
       [opcode |-> 73, kind |-> "ld_8bit_register_register", r |-> "C", p |-> "C", n |-> 0],
       [opcode |-> 74, kind |-> "ld_8bit_register_register", r |-> "C", p |-> "D", n |-> 0],
       [opcode |-> 75, kind |-> "ld_8bit_register_register", r |-> "C", p |-> "E", n |-> 0],
       [opcode |-> 76, kind |-> "ld_8bit_register_register", r |-> "C", p |-> "H", n |-> 0],
       [opcode |-> 77, kind |-> "ld_8bit_register_register", r |-> "C", p |-> "L", n |-> 0],
       [opcode |-> 78, kind |-> "ld_register_pointer", r |-> "C", p |-> "reg_hl", n |-> 0],
       [opcode |-> 79, kind |-> "ld_8bit_register_register", r |-> "C", p |-> "A", n |-> 0],
       [opcode |-> 80, kind |-> "ld_8bit_register_register", r |-> "D", p |-> "B", n |-> 0],
       [opcode |-> 81, kind |-> "ld_8bit_register_register", r |-> "D", p |-> "C", n |-> 0],
       [opcode |-> 82, kind |-> "ld_8bit_register_register", r |-> "D", p |-> "D", n |-> 0],
       [opcode |-> 83, kind |-> "ld_8bit_register_register", r |-> "D", p |-> "E", n |-> 0],
       [opcode |-> 84, kind |-> "ld_8bit_register_register", r |-> "D", p |-> "H", n |-> 0],
       [opcode |-> 85, kind |-> "ld_8bit_register_register", r |-> "D", p |-> "L", n |-> 0],
       [opcode |-> 86, kind |-> "ld_register_pointer", r |-> "D", p |-> "reg_hl", n |-> 0],
       [opcode |-> 87, kind |-> "ld_8bit_register_register", r |-> "D", p |-> "A", n |-> 0],
       [opcode |-> 88, kind |-> "ld_8bit_register_register", r |-> "E", p |-> "B", n |-> 0],
       [opcode |-> 89, kind |-> "ld_8bit_register_register", r |-> "E", p |-> "C", n |-> 0],
       [opcode |-> 90, kind |-> "ld_8bit_register_register", r |-> "E", p |-> "D", n |-> 0],
       [opcode |-> 91, kind |-> "ld_8bit_register_register", r |-> "E", p |-> "E", n |-> 0],
       [opcode |-> 92, kind |-> "ld_8bit_register_register", r |-> "E", p |-> "H", n |-> 0],
       [opcode |-> 93, kind |-> "ld_8bit_register_register", r |-> "E", p |-> "L", n |-> 0],
       [opcode |-> 94, kind |-> "ld_register_pointer", r |-> "E", p |-> "reg_hl", n |-> 0],
       [opcode |-> 95, kind |-> "ld_8bit_register_register", r |-> "E", p |-> "A", n |-> 0],
       [opcode |-> 96, kind |-> "ld_8bit_register_register", r |-> "H", p |-> "B", n |-> 0],
       [opcode |-> 97, kind |-> "ld_8bit_register_register", r |-> "H", p |-> "C", n |-> 0],
       [opcode |-> 98, kind |-> "ld_8bit_register_register", r |-> "H", p |-> "D", n |-> 0],
       [opcode |-> 99, kind |-> "ld_8bit_register_register", r |-> "H", p |-> "E", n |-> 0],
       [opcode |-> 100, kind |-> "ld_8bit_register_register", r |-> "H", p |-> "H", n |-> 0],
       [opcode |-> 101, kind |-> "ld_8bit_register_register", r |-> "H", p |-> "L", n |-> 0],
       [opcode |-> 102, kind |-> "ld_register_pointer", r |-> "H", p |-> "reg_hl", n |-> 0],
       [opcode |-> 103, kind |-> "ld_8bit_register_register", r |-> "H", p |-> "A", n |-> 0],
       [opcode |-> 104, kind |-> "ld_8bit_register_register", r |-> "L", p |-> "B", n |-> 0],
       [opcode |-> 105, kind |-> "ld_8bit_register_register", r |-> "L", p |-> "C", n |-> 0],
       [opcode |-> 106, kind |-> "ld_8bit_register_register", r |-> "L", p |-> "D", n |-> 0],
       [opcode |-> 107, kind |-> "ld_8bit_register_register", r |-> "L", p |-> "E", n |-> 0],
       [opcode |-> 108, kind |-> "ld_8bit_register_register", r |-> "L", p |-> "H", n |-> 0],
       [opcode |-> 109, kind |-> "ld_8bit_register_register", r |-> "L", p |-> "L", n |-> 0],
       [opcode |-> 110, kind |-> "ld_register_pointer", r |-> "L", p |-> "reg_hl", n |-> 0],
       [opcode |-> 111, kind |-> "ld_8bit_register_register", r |-> "L", p |-> "A", n |-> 0],
       [opcode |-> 112, kind |-> "ld_pointer_register", r |-> "B", p |-> "reg_hl", n |-> 0],
       [opcode |-> 113, kind |-> "ld_pointer_register", r |-> "C", p |-> "reg_hl", n |-> 0],
       [opcode |-> 114, kind |-> "ld_pointer_register", r |-> "D", p |-> "reg_hl", n |-> 0],
       [opcode |-> 115, kind |-> "ld_pointer_register", r |-> "E", p |-> "reg_hl", n |-> 0],
       [opcode |-> 116, kind |-> "ld_pointer_register", r |-> "H", p |-> "reg_hl", n |-> 0],
       [opcode |-> 117, kind |-> "ld_pointer_register", r |-> "L", p |-> "reg_hl", n |-> 0],
       [opcode |-> 119, kind |-> "ld_pointer_register", r |-> "A", p |-> "reg_hl", n |-> 0],
       [opcode |-> 120, kind |-> "ld_8bit_register_register", r |-> "A", p |-> "B", n |-> 0],
       [opcode |-> 121, kind |-> "ld_8bit_register_register", r |-> "A", p |-> "C", n |-> 0],
       [opcode |-> 122, kind |-> "ld_8bit_register_register", r |-> "A", p |-> "D", n |-> 0],
       [opcode |-> 123, kind |-> "ld_8bit_register_register", r |-> "A", p |-> "E", n |-> 0],
       [opcode |-> 124, kind |-> "ld_8bit_register_register", r |-> "A", p |-> "H", n |-> 0],
       [opcode |-> 125, kind |-> "ld_8bit_register_register", r |-> "A", p |-> "L", n |-> 0],
       [opcode |-> 126, kind |-> "ld_register_pointer", r |-> "A", p |-> "reg_hl", n |-> 0],
       [opcode |-> 127, kind |-> "ld_8bit_register_register", r |-> "A", p |-> "A", n |-> 0],
       [opcode |-> 128, kind |-> "add", r |-> "B", p |-> "", n |-> 0],
       [opcode |-> 129, kind |-> "add", r |-> "C", p |-> "", n |-> 0],
       [opcode |-> 130, kind |-> "add", r |-> "D", p |-> "", n |-> 0],
       [opcode |-> 131, kind |-> "add", r |-> "E", p |-> "", n |-> 0],
       [opcode |-> 132, kind |-> "add", r |-> "H", p |-> "", n |-> 0],
       [opcode |-> 133, kind |-> "add", r |-> "L", p |-> "", n |-> 0],
       [opcode |-> 134, kind |-> "add_hl", r |-> "", p |-> "", n |-> 0],
       [opcode |-> 135, kind |-> "add", r |-> "A", p |-> "", n |-> 0],
       [opcode |-> 144, kind |-> "sub", r |-> "B", p |-> "", n |-> 0],
       [opcode |-> 145, kind |-> "sub", r |-> "C", p |-> "", n |-> 0],
       [opcode |-> 146, kind |-> "sub", r |-> "D", p |-> "", n |-> 0],
       [opcode |-> 147, kind |-> "sub", r |-> "E", p |-> "", n |-> 0],
       [opcode |-> 148, kind |-> "sub", r |-> "H", p |-> "", n |-> 0],
       [opcode |-> 149, kind |-> "sub", r |-> "L", p |-> "", n |-> 0],
       [opcode |-> 150, kind |-> "sub_hl", r |-> "", p |-> "", n |-> 0],
       [opcode |-> 151, kind |-> "sub", r |-> "A", p |-> "", n |-> 0],
       [opcode |-> 175, kind |-> "xor_a", r |-> "", p |-> "", n |-> 0],
       [opcode |-> 184, kind |-> "cp", r |-> "B", p |-> "", n |-> 0],
       [opcode |-> 185, kind |-> "cp", r |-> "C", p |-> "", n |-> 0],
       [opcode |-> 186, kind |-> "cp", r |-> "D", p |-> "", n |-> 0],
       [opcode |-> 187, kind |-> "cp", r |-> "E", p |-> "", n |-> 0],
       [opcode |-> 188, kind |-> "cp", r |-> "H", p |-> "", n |-> 0],
       [opcode |-> 189, kind |-> "cp", r |-> "L", p |-> "", n |-> 0],
       [opcode |-> 190, kind |-> "cp_hl", r |-> "", p |-> "", n |-> 0],
       [opcode |-> 191, kind |-> "cp", r |-> "A", p |-> "", n |-> 0],
       [opcode |-> 193, kind |-> "pop", r |-> "", p |-> "reg_bc", n |-> 0],
       [opcode |-> 194, kind |-> "jump", r |-> "Z", p |-> "", n |-> 0],
       [opcode |-> 195, kind |-> "jump_always", r |-> "", p |-> "", n |-> 0],
       [opcode |-> 197, kind |-> "push", r |-> "", p |-> "reg_bc", n |-> 0],
       [opcode |-> 198, kind |-> "add_immediate", r |-> "", p |-> "", n |-> 0],
       [opcode |-> 201, kind |-> "ret", r |-> "", p |-> "", n |-> 0],
       [opcode |-> 202, kind |-> "jump", r |-> "Z", p |-> "", n |-> 1],
       [opcode |-> 203, kind |-> "cb_prefix", r |-> "", p |-> "", n |-> 0],
       [opcode |-> 205, kind |-> "call", r |-> "", p |-> "", n |-> 0],
       [opcode |-> 209, kind |-> "pop", r |-> "", p |-> "reg_de", n |-> 0],
       [opcode |-> 210, kind |-> "jump", r |-> "C", p |-> "", n |-> 0],
       [opcode |-> 213, kind |-> "push", r |-> "", p |-> "reg_de", n |-> 0],
       [opcode |-> 214, kind |-> "sub_immediate", r |-> "", p |-> "", n |-> 0],
       [opcode |-> 218, kind |-> "jump", r |-> "C", p |-> "", n |-> 1],
       [opcode |-> 224, kind |-> "ld_high_immediate_a", r |-> "", p |-> "", n |-> 0],
       [opcode |-> 225, kind |-> "pop", r |-> "", p |-> "reg_hl", n |-> 0],
       [opcode |-> 226, kind |-> "ld_high_c_a", r |-> "", p |-> "", n |-> 0],
       [opcode |-> 229, kind |-> "push", r |-> "", p |-> "reg_hl", n |-> 0],
       [opcode |-> 233, kind |-> "jump_hl", r |-> "", p |-> "", n |-> 0],
       [opcode |-> 234, kind |-> "ld_a16_a", r |-> "", p |-> "", n |-> 0],
       [opcode |-> 240, kind |-> "ld_a_high_immediate", r |-> "", p |-> "", n |-> 0],
       [opcode |-> 241, kind |-> "pop", r |-> "", p |-> "reg_af", n |-> 0],
       [opcode |-> 243, kind |-> "di", r |-> "", p |-> "", n |-> 0],
       [opcode |-> 245, kind |-> "push", r |-> "", p |-> "reg_af", n |-> 0],
       [opcode |-> 251, kind |-> "ei", r |-> "", p |-> "", n |-> 0],
       [opcode |-> 254, kind |-> "cp_immediate", r |-> "", p |-> "", n |-> 0] >>

INSTRUCTIONS_CB ==
    << [opcode |-> 16, kind |-> "rotate_left_trough_carry_regular", r |-> "B", p |-> "", n |-> 0],
       [opcode |-> 17, kind |-> "rotate_left_trough_carry_regular", r |-> "C", p |-> "", n |-> 0],
       [opcode |-> 18, kind |-> "rotate_left_trough_carry_regular", r |-> "D", p |-> "", n |-> 0],
       [opcode |-> 19, kind |-> "rotate_left_trough_carry_regular", r |-> "E", p |-> "", n |-> 0],
       [opcode |-> 20, kind |-> "rotate_left_trough_carry_regular", r |-> "H", p |-> "", n |-> 0],
       [opcode |-> 21, kind |-> "rotate_left_trough_carry_regular", r |-> "L", p |-> "", n |-> 0],
       [opcode |-> 23, kind |-> "rotate_left_trough_carry_regular", r |-> "F", p |-> "", n |-> 0],
       [opcode |-> 124, kind |-> "bit_7_h", r |-> "", p |-> "", n |-> 0] >>

\* the entry of a table for an opcode, if there is one
HasEntry(table, opcode) == \E i \in 1 .. Len(table) : table[i].opcode = opcode
Entry(table, opcode) == table[CHOOSE i \in 1 .. Len(table) : table[i].opcode = opcode]

\* CPU::new pads each vector with "NOT IMPLEMENTED" entries up to the last
\* opcode of its table: the vector's length is that opcode + 1
instruction_vector_len == INSTRUCTIONS_NOCB[Len(INSTRUCTIONS_NOCB)].opcode + 1
cb_instruction_vector_len == INSTRUCTIONS_CB[Len(INSTRUCTIONS_CB)].opcode + 1

\* Instruction.length_in_bytes
length_in_bytes(kind) ==
    CASE kind \in {"ld_8bit_register_immediate", "rotate_left_trough_carry_regular",
                   "jump_relative", "jump_relative_always", "add_immediate",
                   "sub_immediate", "cp_immediate", "ld_high_immediate_a",
                   "ld_a_high_immediate", "bit_7_h"} -> 2
      [] kind \in {"not_implemented", "ld_16bit_register_immediate", "jump",
                   "jump_always", "call", "ld_a16_a"} -> 3
      [] kind = "cb_prefix" -> 0
      [] OTHER -> 1

(***************************************************************************)
(* Instruction implementations: the macros and inline closures of          *)
(* src/src/cpu/instruction.rs, statement by statement                      *)
(***************************************************************************)
\* cpu.<r>.write(byte) for an 8-bit half, cpu.<p>.write(value) for a pair
Set8(m, r, byte) == SetCpu(m, write_subreg(m.cpu, r, byte))
Set16(m, p, value) == SetCpu(m, write(m.cpu, p, value))
SetFlags(m, bits) == SetCpu(m, [m.cpu EXCEPT !.flags = bits])

push(m, e) ==
    AddCycles(push_u16_to_stack(m, read(m.cpu, e.p)), 16)

pop(m, e) ==
    Let(pop_u16_from_stack(m), LAMBDA popped :
    AddCycles(Set16(popped.m, e.p, popped.v), 12))

\* inc_u8 with the half-carry test of dec_u8
inc_u8_half_carry_as_dec(m, e) ==
    Let(overflowing_add_u8(read_subreg(m.cpu, e.r), 1), LAMBDA target_value :
    Let(Set8(m, e.r, target_value), LAMBDA m1 :
    Let(SetFlags(m1, remove(m1.cpu.flags, N)), LAMBDA m2 :
    Let(SetFlags(m2, set(m2.cpu.flags, Z, target_value = 0)), LAMBDA m3 :
    Let(SetFlags(m3, set(m3.cpu.flags, H, target_value % 16 = 15)), LAMBDA m4 :
    AddCycles(m4, 4))))))

inc_u8(m, e) ==
    Let(overflowing_add_u8(read_subreg(m.cpu, e.r), 1), LAMBDA target_value :
    Let(Set8(m, e.r, target_value), LAMBDA m1 :
    Let(SetFlags(m1, remove(m1.cpu.flags, N)), LAMBDA m2 :
    Let(SetFlags(m2, set(m2.cpu.flags, Z, target_value = 0)), LAMBDA m3 :
    Let(SetFlags(m3, set(m3.cpu.flags, H, target_value % 16 = 0)), LAMBDA m4 :
    AddCycles(m4, 4))))))

inc_u16(m, e) ==
    AddCycles(Set16(m, e.p, overflowing_add(read(m.cpu, e.p), 1)), 8)

\* dec_u8 with the half-carry test of inc_u8
dec_u8_half_carry_as_inc(m, e) ==
    Let(overflowing_add_u8(read_subreg(m.cpu, e.r), 255), LAMBDA target_value :
    Let(Set8(m, e.r, target_value), LAMBDA m1 :
    Let(SetFlags(m1, insert(m1.cpu.flags, N)), LAMBDA m2 :
    Let(SetFlags(m2, set(m2.cpu.flags, Z, target_value = 0)), LAMBDA m3 :
    Let(SetFlags(m3, set(m3.cpu.flags, H, target_value % 16 = 0)), LAMBDA m4 :
    AddCycles(m4, 4))))))

dec_u8(m, e) ==
    Let(overflowing_add_u8(read_subreg(m.cpu, e.r), 255), LAMBDA target_value :
    Let(Set8(m, e.r, target_value), LAMBDA m1 :
    Let(SetFlags(m1, insert(m1.cpu.flags, N)), LAMBDA m2 :
    Let(SetFlags(m2, set(m2.cpu.flags, Z, target_value = 0)), LAMBDA m3 :
    Let(SetFlags(m3, set(m3.cpu.flags, H, target_value % 16 = 15)), LAMBDA m4 :
    AddCycles(m4, 4))))))

dec_u16(m, e) ==
    AddCycles(Set16(m, e.p, overflowing_add(read(m.cpu, e.p), 65535)), 8)

ld_8bit_register_immediate(m, e) ==
    Let(pop_u8_from_pc(m), LAMBDA immediate :
    AddCycles(Set8(immediate.m, e.r, immediate.v), 8))

\* e.r is the destination, e.p the origin
ld_8bit_register_register(m, e) ==
    AddCycles(Set8(m, e.r, read_subreg(m.cpu, e.p)), 4)

\* also the inline closure of 0x31 (LD SP,d16)
ld_16bit_register_immediate(m, e) ==
    Let(AddCycles(m, 12), LAMBDA m1 :
    Let(pop_u16_from_pc(m1), LAMBDA immediate :
    Set16(immediate.m, e.p, immediate.v)))

\* both arms: the pointer addition e.n is 0 for the arm without one
ld_register_pointer(m, e) ==
    Let(AddCycles(m, 8), LAMBDA m1 :
    Let(BusRead(m1, read(m1.cpu, e.p)), LAMBDA rd :
    Let(Set8(rd.m, e.r, rd.v), LAMBDA m2 :
    IF e.n = 0 THEN m2
    ELSE Set16(m2, e.p, overflowing_add(read(m2.cpu, e.p), e.n)))))

ld_pointer_register(m, e) ==
    Let(AddCycles(m, 8), LAMBDA m1 :
    Let(BusWrite(m1, read(m1.cpu, e.p), read_subreg(m1.cpu, e.r)), LAMBDA m2 :
    IF e.n = 0 THEN m2
    ELSE Set16(m2, e.p, overflowing_add(read(m2.cpu, e.p), e.n))))

\* the "regular" arm (CB RL r): N and H are removed before the register is read
rotate_left_trough_carry_regular(m, e) ==
    Let(AddCycles(m, 8), LAMBDA m1 :
    Let(SetFlags(m1, remove(m1.cpu.flags, N)), LAMBDA m2 :
    Let(SetFlags(m2, remove(m2.cpu.flags, H)), LAMBDA m3 :
    Let(BitSet(read_subreg(m3.cpu, e.r), 128), LAMBDA set_carry :
    Let((read_subreg(m3.cpu, e.r) * 2) % 256, LAMBDA shifted :
    Let(IF contains(m3.cpu.flags, C) THEN shifted + 1 ELSE shifted, LAMBDA new_value :
    Let(Set8(m3, e.r, new_value), LAMBDA m4 :
    Let(SetFlags(m4, set(m4.cpu.flags, C, set_carry)), LAMBDA m5 :
    SetFlags(m5, set(m5.cpu.flags, Z, new_value = 0))))))))))

\* the "fast" arm (RLA): the flags are cleared, then C is set
rotate_left_trough_carry_fast(m, e) ==
    Let(AddCycles(m, 4), LAMBDA m1 :
    Let(BitSet(read_subreg(m1.cpu, e.r), 128), LAMBDA set_carry :
    Let((read_subreg(m1.cpu, e.r) * 2) % 256, LAMBDA shifted :
    Let(IF contains(m1.cpu.flags, C) THEN shifted + 1 ELSE shifted, LAMBDA new_value :
    Let(Set8(m1, e.r, new_value), LAMBDA m2 :
    Let(SetFlags(m2, 0), LAMBDA m3 :
    SetFlags(m3, set(m3.cpu.flags, C, set_carry))))))))

sign_extend_as_unsigned(byte) == byte

\* i16::from(byte as i8) as u16
sign_extend(byte) == IF byte >= 128 THEN byte + 65280 ELSE byte

\* the flag named by a condition entry
FlagOf(e) == IF e.r = "Z" THEN Z ELSE C

\* contains($flag) == $true_or_false
ConditionHolds(m, e) == contains(m.cpu.flags, FlagOf(e)) = (e.n = 1)

jump_relative_untaken_uncharged(m, e) ==
    Let(pop_u8_from_pc(m), LAMBDA jump_distance :
    Let(jump_distance.m, LAMBDA m1 :
    IF ConditionHolds(m1, e)
    THEN Let(AddCycles(m1, 12), LAMBDA m2 :
         Set16(m2, "program_counter",
               overflowing_add(m2.cpu.program_counter,
                               sign_extend(jump_distance.v))))
    ELSE m1))

jump_relative(m, e) ==
    Let(pop_u8_from_pc(m), LAMBDA jump_distance :
    Let(jump_distance.m, LAMBDA m1 :
    IF ConditionHolds(m1, e)
    THEN Let(AddCycles(m1, 12), LAMBDA m2 :
         Set16(m2, "program_counter",
               overflowing_add(m2.cpu.program_counter,
                               sign_extend(jump_distance.v))))
    ELSE AddCycles(m1, 8)))

jump_relative_always(m, e) ==
    Let(pop_u8_from_pc(m), LAMBDA jump_distance :
    Let(AddCycles(jump_distance.m, 12), LAMBDA m1 :
    Set16(m1, "program_counter",
          overflowing_add(m1.cpu.program_counter, sign_extend(jump_distance.v)))))

jump(m, e) ==
    Let(pop_u16_from_pc(m), LAMBDA jump_address :
    Let(jump_address.m, LAMBDA m1 :
    IF ConditionHolds(m1, e)
    THEN Set16(AddCycles(m1, 16), "program_counter", jump_address.v)
    ELSE AddCycles(m1, 12)))

jump_always(m, e) ==
    Let(pop_u16_from_pc(m), LAMBDA jump_address :
    Set16(AddCycles(jump_address.m, 12), "program_counter", jump_address.v))

\* the "hl" arm: the program counter is loaded with the byte read at [HL]
jump_hl(m, e) ==
    Let(AddCycles(m, 4), LAMBDA m1 :
    Let(BusRead(m1, m1.cpu.reg_hl), LAMBDA rd :
    Set16(rd.m, "program_counter", rd.v)))

\* set_cpu_flags_for_add with the half carry taken from the whole bytes
set_cpu_flags_for_add_half_carry_unmasked(m, value) ==
    Let(m.cpu.reg_a, LAMBDA a :
    Let(SetFlags(m, set(m.cpu.flags, Z, overflowing_add_u8(a, value) = 0)), LAMBDA m1 :
    Let(SetFlags(m1, set(m1.cpu.flags, C, a + value > 255)), LAMBDA m2 :
    Let(SetFlags(m2, set(m2.cpu.flags, H, a + value > 15)), LAMBDA m3 :
    SetFlags(m3, remove(m3.cpu.flags, N))))))

set_cpu_flags_for_add(m, value) ==
    Let(m.cpu.reg_a, LAMBDA a :
    Let(SetFlags(m, set(m.cpu.flags, Z, overflowing_add_u8(a, value) = 0)), LAMBDA m1 :
    Let(SetFlags(m1, set(m1.cpu.flags, C, a + value > 255)), LAMBDA m2 :
    Let(SetFlags(m2, set(m2.cpu.flags, H, (a % 16) + (value % 16) > 15)), LAMBDA m3 :
    SetFlags(m3, remove(m3.cpu.flags, N))))))

\* the common tail of the three add! arms
AddToA(m, addend, cycles) ==
    Let(set_cpu_flags_for_add(m, addend), LAMBDA m1 :
    Let(Set8(m1, "A", overflowing_add_u8(m1.cpu.reg_a, addend)), LAMBDA m2 :
    AddCycles(m2, cycles)))

add(m, e) == AddToA(m, read_subreg(m.cpu, e.r), 4)

add_hl(m, e) ==
    Let(BusRead(m, m.cpu.reg_hl), LAMBDA rd : AddToA(rd.m, rd.v, 8))

add_immediate(m, e) ==
    Let(pop_u8_from_pc(m), LAMBDA rd : AddToA(rd.m, rd.v, 8))

\* set_cpu_flags_for_sub_or_cp with the borrow test the wrong way round
set_cpu_flags_for_sub_or_cp_borrow_reversed(m, value) ==
    Let(m.cpu.reg_a, LAMBDA a :
    Let(SetFlags(m, set(m.cpu.flags, Z, a = value)), LAMBDA m1 :
    Let(SetFlags(m1, set(m1.cpu.flags, C, a > value)), LAMBDA m2 :
    Let(SetFlags(m2, set(m2.cpu.flags, H, (a % 16) < (value % 16))), LAMBDA m3 :
    SetFlags(m3, insert(m3.cpu.flags, N))))))

set_cpu_flags_for_sub_or_cp(m, value) ==
    Let(m.cpu.reg_a, LAMBDA a :
    Let(SetFlags(m, set(m.cpu.flags, Z, a = value)), LAMBDA m1 :
    Let(SetFlags(m1, set(m1.cpu.flags, C, a < value)), LAMBDA m2 :
    Let(SetFlags(m2, set(m2.cpu.flags, H, (a % 16) < (value % 16))), LAMBDA m3 :
    SetFlags(m3, insert(m3.cpu.flags, N))))))

\* the common tail of the three sub! arms; u8::overflowing_sub(..).0
SubFromA(m, subtrahend, cycles) ==
    Let(set_cpu_flags_for_sub_or_cp(m, subtrahend), LAMBDA m1 :
    Let(Set8(m1, "A", (m1.cpu.reg_a - subtrahend) % 256), LAMBDA m2 :
    AddCycles(m2, cycles)))

sub(m, e) == SubFromA(m, read_subreg(m.cpu, e.r), 4)

sub_hl(m, e) ==
    Let(BusRead(m, m.cpu.reg_hl), LAMBDA rd : SubFromA(rd.m, rd.v, 8))

sub_immediate(m, e) ==
    Let(pop_u8_from_pc(m), LAMBDA rd : SubFromA(rd.m, rd.v, 8))

\* cp! with the body of sub!: the difference is stored in A
cp_storing_difference(m, e) == sub(m, e)

cp(m, e) ==
    AddCycles(set_cpu_flags_for_sub_or_cp(m, read_subreg(m.cpu, e.r)), 4)

cp_hl(m, e) ==
    Let(BusRead(m, m.cpu.reg_hl), LAMBDA rd :
    AddCycles(set_cpu_flags_for_sub_or_cp(rd.m, rd.v), 8))

cp_immediate(m, e) ==
    Let(pop_u8_from_pc(m), LAMBDA rd :
    AddCycles(set_cpu_flags_for_sub_or_cp(rd.m, rd.v), 8))

nop(m, e) == AddCycles(m, 4)

\* 0x01: panic!("Not implemented")
not_implemented(m, e) == IF m.panicked THEN m ELSE Panic(m)

\* 0xAF: A is zeroed and Z inserted; the other flag bits are left as they are
xor_a(m, e) ==
    Let(Set8(AddCycles(m, 4), "A", 0), LAMBDA m1 :
    SetFlags(m1, insert(m1.cpu.flags, Z)))

\* RET reading the return address at SP without popping it
ret_without_pop(m, e) ==
    Let(pop_u16_from_stack(AddCycles(m, 16)), LAMBDA new_pc :
    Let(Set16(new_pc.m, "program_counter", new_pc.v), LAMBDA m1 :
    Set16(m1, "stack_pointer", m.cpu.stack_pointer)))

ret(m, e) ==
    Let(pop_u16_from_stack(AddCycles(m, 16)), LAMBDA new_pc :
    Set16(new_pc.m, "program_counter", new_pc.v))

call_pushing_instruction_address(m, e) ==
    Let(pop_u16_from_pc(AddCycles(m, 24)), LAMBDA new_pc :
    Let(push_u16_to_stack(new_pc.m, new_pc.m.cpu.instruction_address), LAMBDA m1 :
    Set16(m1, "program_counter", new_pc.v)))

call(m, e) ==
    Let(pop_u16_from_pc(AddCycles(m, 24)), LAMBDA new_pc :
    Let(push_u16_to_stack(new_pc.m, new_pc.m.cpu.program_counter), LAMBDA m1 :
    Set16(m1, "program_counter", new_pc.v)))

\* 0xE0
ld_high_immediate_a(m, e) ==
    Let(pop_u8_from_pc(AddCycles(m, 12)), LAMBDA rd :
    BusWrite(rd.m, 65280 + rd.v, rd.m.cpu.reg_a))

\* 0xE2
ld_high_c_a(m, e) ==
    Let(AddCycles(m, 8), LAMBDA m1 :
    BusWrite(m1, 65280 + read_lower(m1.cpu.reg_bc), m1.cpu.reg_a))

\* 0xEA
ld_a16_a(m, e) ==
    Let(pop_u16_from_pc(AddCycles(m, 16)), LAMBDA immediate :
    BusWrite(immediate.m, immediate.v, immediate.m.cpu.reg_a))

\* 0xF0
\* LD A,($FF00+imm) advancing the PPU as it charges its cycles, before the read
ld_a_high_immediate_ticking(m, e) ==
    Let(pop_u8_from_pc(AddCycles(m, 12)), LAMBDA imm :
    Let(IF imm.m.panicked THEN imm.m
        ELSE [imm.m EXCEPT !.ppu = PPU_cycled(imm.m.ppu, 12)], LAMBDA ticked :
    Let(BusRead(ticked, 65280 + imm.v), LAMBDA rd :
    Set8(rd.m, "A", rd.v))))

ld_a_high_immediate(m, e) ==
    Let(pop_u8_from_pc(AddCycles(m, 12)), LAMBDA imm :
    Let(BusRead(imm.m, 65280 + imm.v), LAMBDA rd :
    Set8(rd.m, "A", rd.v)))

di(m, e) ==
    Let(AddCycles(m, 4), LAMBDA m1 :
    SetCpu(m1, [m1.cpu EXCEPT !.interrupts_enabled = FALSE]))

ei(m, e) ==
    Let(AddCycles(m, 4), LAMBDA m1 :
    SetCpu(m1, [m1.cpu EXCEPT !.interrupts_enabled = TRUE]))

\* CB 0x7C
bit_7_h(m, e) ==
    Let(AddCycles(m, 8), LAMBDA m1 :
    Let(SetFlags(m1, remove(m1.cpu.flags, N)), LAMBDA m2 :
    Let(SetFlags(m2, insert(m2.cpu.flags, H)), LAMBDA m3 :
    SetFlags(m3, set(m3.cpu.flags, Z, ~ BitSet(read_higher(m3.cpu.reg_hl), 128))))))

\* Instruction.implementation of every entry but the CB prefix
implementation(m, e) ==
    CASE e.kind = "push" -> push(m, e)
      [] e.kind = "pop" -> pop(m, e)
      [] e.kind = "inc_u8" -> inc_u8(m, e)
      [] e.kind = "inc_u16" -> inc_u16(m, e)
      [] e.kind = "dec_u8" -> dec_u8(m, e)
      [] e.kind = "dec_u16" -> dec_u16(m, e)
      [] e.kind = "ld_8bit_register_immediate" -> ld_8bit_register_immediate(m, e)
      [] e.kind = "ld_8bit_register_register" -> ld_8bit_register_register(m, e)
      [] e.kind = "ld_16bit_register_immediate" -> ld_16bit_register_immediate(m, e)
      [] e.kind = "ld_register_pointer" -> ld_register_pointer(m, e)
      [] e.kind = "ld_pointer_register" -> ld_pointer_register(m, e)
      [] e.kind = "rotate_left_trough_carry_regular" ->
            rotate_left_trough_carry_regular(m, e)
      [] e.kind = "rotate_left_trough_carry_fast" -> rotate_left_trough_carry_fast(m, e)
      [] e.kind = "jump_relative" -> jump_relative(m, e)
      [] e.kind = "jump_relative_always" -> jump_relative_always(m, e)
      [] e.kind = "jump" -> jump(m, e)
      [] e.kind = "jump_always" -> jump_always(m, e)
      [] e.kind = "jump_hl" -> jump_hl(m, e)
      [] e.kind = "add" -> add(m, e)
      [] e.kind = "add_hl" -> add_hl(m, e)
      [] e.kind = "add_immediate" -> add_immediate(m, e)
      [] e.kind = "sub" -> sub(m, e)
      [] e.kind = "sub_hl" -> sub_hl(m, e)
      [] e.kind = "sub_immediate" -> sub_immediate(m, e)
      [] e.kind = "cp" -> cp(m, e)
      [] e.kind = "cp_hl" -> cp_hl(m, e)
      [] e.kind = "cp_immediate" -> cp_immediate(m, e)
      [] e.kind = "nop" -> nop(m, e)
      [] e.kind = "not_implemented" -> not_implemented(m, e)
      [] e.kind = "xor_a" -> xor_a(m, e)
      [] e.kind = "ret" -> ret(m, e)
      [] e.kind = "call" -> call(m, e)
      [] e.kind = "ld_high_immediate_a" -> ld_high_immediate_a(m, e)
      [] e.kind = "ld_high_c_a" -> ld_high_c_a(m, e)
      [] e.kind = "ld_a16_a" -> ld_a16_a(m, e)
      [] e.kind = "ld_a_high_immediate" -> ld_a_high_immediate(m, e)
      [] e.kind = "di" -> di(m, e)
      [] e.kind = "ei" -> ei(m, e)
      [] e.kind = "bit_7_h" -> bit_7_h(m, e)

(***************************************************************************)
(* Fetch, decode, execute: src/src/cpu/mod.rs                              *)
(***************************************************************************)
\* length_in_bytes of the entry print_instruction looks up: a padding entry
\* ("NOT IMPLEMENTED") has length 1
PrintedLength(m) ==
    Let(IF m.cpu.reg_instruction_is_cb THEN INSTRUCTIONS_CB
                 ELSE INSTRUCTIONS_NOCB, LAMBDA table :
    IF HasEntry(table, m.cpu.reg_instruction)
    THEN length_in_bytes(Entry(table, m.cpu.reg_instruction).kind)
    ELSE 1)

\* bus.read(instruction_address + k) of print_instruction: the u16 addition
\* panics on overflow when the build checks it and wraps otherwise
PrintOperand(m, k) ==
    IF m.panicked THEN m
    ELSE IF m.cpu.instruction_address + k > 65535 /\ m.overflow_checks THEN Panic(m)
    ELSE BusRead(m, (m.cpu.instruction_address + k) % 65536).m

\* CPU::print_instruction: the operand bytes are read through the bus
print_instruction(m) ==
    Let(PrintedLength(m), LAMBDA len :
    Let(IF len = 3 THEN PrintOperand(m, 2) ELSE m, LAMBDA m1 :
    IF len > 1 THEN PrintOperand(m1, 1) ELSE m1))

\* Bus::cycle n times
RECURSIVE Bus_cycles(_, _)
Bus_cycles(p, n) == IF n <= 0 THEN p ELSE Bus_cycles(PPU_cycle(p), n - 1)

run_cb_op_charging_the_prefix(m) ==
    IF m.panicked THEN m
    ELSE
    Let([m EXCEPT !.cpu.instruction_address = m.cpu.program_counter,
                !.cpu.cycle_count = @ + 4],
        LAMBDA m1 :
    Let(pop_u8_from_pc(m1), LAMBDA rd :
    Let(SetCpu(rd.m, [rd.m.cpu EXCEPT !.reg_instruction = rd.v,
                                      !.reg_instruction_is_cb = TRUE]), LAMBDA m2 :
    IF m2.panicked THEN m2
    ELSE IF rd.v >= cb_instruction_vector_len THEN Panic(m2)
    ELSE Let(IF m2.cpu.debug THEN print_instruction(m2) ELSE m2, LAMBDA m3 :
         IF m3.panicked THEN m3
         ELSE IF HasEntry(INSTRUCTIONS_CB, rd.v)
              THEN implementation(m3, Entry(INSTRUCTIONS_CB, rd.v))
              ELSE Panic(m3)))))

\* CPU::run_cb_op
run_cb_op(m) ==
    IF m.panicked THEN m
    ELSE
    Let([m EXCEPT !.cpu.instruction_address = m.cpu.program_counter],
        LAMBDA m1 :
    Let(pop_u8_from_pc(m1), LAMBDA rd :
    Let(SetCpu(rd.m, [rd.m.cpu EXCEPT !.reg_instruction = rd.v,
                                      !.reg_instruction_is_cb = TRUE]), LAMBDA m2 :
    IF m2.panicked THEN m2
    ELSE IF rd.v >= cb_instruction_vector_len THEN Panic(m2)
    ELSE Let(IF m2.cpu.debug THEN print_instruction(m2) ELSE m2, LAMBDA m3 :
         IF m3.panicked THEN m3
         ELSE IF HasEntry(INSTRUCTIONS_CB, rd.v)
              THEN implementation(m3, Entry(INSTRUCTIONS_CB, rd.v))
              ELSE Panic(m3)))))

RunBusCycles_inclusive(m, cycles_before_op) ==
    IF m.panicked THEN m
    ELSE [m EXCEPT !.ppu = Bus_cycles(m.ppu, m.cpu.cycle_count - cycles_before_op + 1)]

\* the loop "for _i in cycles_before_op..self.cycle_count { self.bus.cycle() }"
RunBusCycles(m, cycles_before_op) ==
    IF m.panicked THEN m
    ELSE [m EXCEPT !.ppu = Bus_cycles(m.ppu, m.cpu.cycle_count - cycles_before_op)]

\* run_op over a vector whose padding entries are NOPs
run_op_padding_with_nop(m) ==
    IF m.panicked THEN m
    ELSE
    Let([m EXCEPT !.cpu.instruction_address = m.cpu.program_counter], LAMBDA m1 :
    Let(pop_u8_from_pc(m1), LAMBDA rd :
    Let(SetCpu(rd.m, [rd.m.cpu EXCEPT !.reg_instruction = rd.v,
                                      !.reg_instruction_is_cb = FALSE]), LAMBDA m2 :
    Let(m2.cpu.cycle_count, LAMBDA cycles_before_op :
    IF m2.panicked THEN m2
    ELSE IF rd.v >= instruction_vector_len THEN Panic(m2)
    ELSE Let(IF m2.cpu.debug /\ rd.v # 203 THEN print_instruction(m2) ELSE m2,
             LAMBDA m3 :
         Let(IF m3.panicked THEN m3
             ELSE IF ~ HasEntry(INSTRUCTIONS_NOCB, rd.v) THEN AddCycles(m3, 4)
             ELSE IF Entry(INSTRUCTIONS_NOCB, rd.v).kind = "cb_prefix"
                  THEN run_cb_op(m3)
                  ELSE implementation(m3, Entry(INSTRUCTIONS_NOCB, rd.v)),
             LAMBDA m4 :
         RunBusCycles(m4, cycles_before_op)))))))

\* CPU::run_op, which is CPU::step
run_op(m) ==
    IF m.panicked THEN m
    ELSE
    Let([m EXCEPT !.cpu.instruction_address = m.cpu.program_counter], LAMBDA m1 :
    Let(pop_u8_from_pc(m1), LAMBDA rd :
    Let(SetCpu(rd.m, [rd.m.cpu EXCEPT !.reg_instruction = rd.v,
                                      !.reg_instruction_is_cb = FALSE]), LAMBDA m2 :
    Let(m2.cpu.cycle_count, LAMBDA cycles_before_op :
    IF m2.panicked THEN m2
    ELSE IF rd.v >= instruction_vector_len THEN Panic(m2)
    ELSE Let(IF m2.cpu.debug /\ rd.v # 203 THEN print_instruction(m2) ELSE m2,
             LAMBDA m3 :
         Let(IF m3.panicked THEN m3
             ELSE IF ~ HasEntry(INSTRUCTIONS_NOCB, rd.v) THEN Panic(m3)
             ELSE IF Entry(INSTRUCTIONS_NOCB, rd.v).kind = "cb_prefix"
                  THEN run_cb_op(m3)
                  ELSE implementation(m3, Entry(INSTRUCTIONS_NOCB, rd.v)),
             LAMBDA m4 :
         RunBusCycles(m4, cycles_before_op)))))))

(***************************************************************************)
(* The state machine                                                       *)
(***************************************************************************)
Machine ==
    [cpu |-> cpu, bus |-> bus, ppu |-> ppu, panicked |-> panicked,
     overflow_checks |-> overflow_checks]

SetMachine(m) ==
    /\ cpu' = m.cpu
    /\ bus' = m.bus
    /\ ppu' = m.ppu
    /\ panicked' = m.panicked
    /\ UNCHANGED overflow_checks

\* the record of an operation: what was done, with which arguments, what it
\* returned, and the CPU, bus and PPU it started from
Op(name, address, value, result) ==
    [op |-> name, address |-> address, value |-> value, result |-> result,
     count |-> last.count + 1, cpu |-> cpu, bus |-> bus, ppu |-> ppu,
     first |-> last.first]

\* first is the CPU as it was before the first operation
NoOp ==
    [op |-> "new", address |-> 0, value |-> 0, result |-> 0,
     count |-> 0, cpu |-> CPU_new, bus |-> Bus_new(<<>>, <<>>), ppu |-> PPU_new,
     first |-> CPU_new]

\* ---- the CPU stepped from power-on over a program in the boot ROM ----
\* the two bytes tried after every opcode: 0x42 (SCY) and 0x50 (boot-ROM
\* control) as port numbers, 0xFE as the jump distance -2, 0x0000, 0xC000 and
\* 0xC001 as addresses
Operands ==
    { <<0, 0>>, <<66, 0>>, <<80, 0>>, <<254, 0>>, <<0, 192>>, <<1, 192>> }

\* every first byte with two operand bytes, and every CB second byte
Bodies ==
    { <<op>> \o operands : op \in Byte, operands \in Operands }
    \cup { <<203, b1, 0>> : b1 \in Byte }

\* instructions run before the body: nothing, LD SP,0xD000 (a stack in work
\* RAM), LD A,0x01, LD HL,0xC001, LD B,0xC0, LD D,0xC0, LD C,0x42
Prefixes ==
    { <<>>, <<49, 0, 208>>, <<62, 1>>, <<33, 1, 192>>, <<6, 192>>, <<22, 192>>,
      <<14, 66>> }

Programs == { pre \o body : pre \in Prefixes, body \in Bodies }

\* the dummy cartridge behind the boot ROM
CartRom == <<0, 195, 0, 1>>

\* CPU::new(Bus::new_from_vecs(program, cart))
Init ==
    /\ \E program \in Programs : bus = Bus_new(program, CartRom)
    /\ cpu = CPU_new
    /\ ppu = PPU_new
    /\ panicked = FALSE
    /\ overflow_checks \in BOOLEAN
    /\ last = NoOp

\* cpu.step()
Step ==
    /\ ~ panicked
    /\ cpu.cycle_count < MaxCpuCycles
    /\ SetMachine(run_op(Machine))
    /\ last' = Op("step", cpu.program_counter, 0, 0)

Next == Step

Spec == Init /\ [][Next]_vars

\* ---- the PPU alone, driven by cycle() ----
InitPPU ==
    /\ cpu = CPU_new
    /\ bus = Bus_new(<<>>, <<>>)
    /\ ppu = PPU_new
    /\ panicked = FALSE
    /\ overflow_checks \in BOOLEAN
    /\ last = NoOp

\* ppu.cycle()
Cycle ==
    /\ ppu.cycle_count < MaxPpuCycles
    /\ ppu' = PPU_cycle(ppu)
    /\ UNCHANGED <<cpu, bus, panicked, overflow_checks, last>>

NextPPU == Cycle

SpecPPU == InitPPU /\ [][NextPPU]_vars

\* ---- the bus operated directly, and the CPU stepped on it ----
\* the last instructions of a boot ROM: LD A,0x01; LDH (0x50),A; NOP
BootProgram == <<62, 1, 224, 80, 0>>

\* a 256-byte boot ROM image and the start of a cartridge bank whose bytes
\* differ from the boot ROM's at every address
BootRomImage ==
    [i \in 1 .. BOOT_ROM_SIZE |->
        IF i <= Len(BootProgram) THEN BootProgram[i] ELSE (i * 3) % 256]
CartRomImage ==
    [i \in 1 .. BOOT_ROM_SIZE + 2 |-> IF i = 1 THEN 0 ELSE (i * 3 + 128) % 256]

\* addresses at and around the borders of every region of the memory map,
\* and I/O ports with and without an arm in IOPorts::write
BusAddresses ==
    { 0, 255, 256, 16383, 16384, 32767, 32768, 40959, 40960, 49151, 49152,
      53247, 53248, 65280, 65296, 65297, 65318, 65344, 65345, 65346, 65348,
      65351, 65360, 65407, 65408, 65534, 65535 }

BusValues == {1, 171}

\* numbers of bus.cycle() calls made before the first operation: none, one
\* less than a whole line, and one less than a whole frame
BusCyclesBefore ==
    {0, LINE_TOTAL_DURATION - 1, LINE_TOTAL_DURATION * (DRAWN_LINES + VBLANK_LINES) - 1}

\* the overlay flag is a public field: a bus starts with the overlay active
\* (both constructors) or is handed over with it already inactive;
\* the PPU is fresh or has been cycled to the last dot of a line
InitBus ==
    /\ bus \in { [Bus_new(BootRomImage, CartRomImage) EXCEPT !.boot_rom_active = active] :
                    active \in BOOLEAN }
    /\ cpu = CPU_new
    /\ ppu \in { PPU_cycled(PPU_new, n) : n \in BusCyclesBefore }
    /\ panicked = FALSE
    /\ overflow_checks \in BOOLEAN
    /\ last = NoOp

\* bus.read(address)
Read(address) ==
    /\ ~ panicked
    /\ last.count < MaxBusOps
    /\ LET rd == BusRead(Machine, address)
       IN  /\ SetMachine(rd.m)
           /\ last' = Op("read", address, 0, rd.v)

\* bus.write(address, value)
Write(address, value) ==
    /\ ~ panicked
    /\ last.count < MaxBusOps
    /\ SetMachine(BusWrite(Machine, address, value))
    /\ last' = Op("write", address, value, 0)

\* bus.cycle()
BusCycle ==
    /\ ~ panicked
    /\ last.count < MaxBusOps
    /\ ppu' = PPU_cycle(ppu)
    /\ last' = Op("cycle", 0, 0, 0)
    /\ UNCHANGED <<cpu, bus, panicked, overflow_checks>>

\* cpu.step() among the bus operations
BusStep ==
    /\ last.count < MaxBusOps
    /\ Step

NextBus ==
    \/ \E address \in BusAddresses : Read(address)
    \/ \E address \in BusAddresses, value \in BusValues : Write(address, value)
    \/ BusCycle
    \/ BusStep

SpecBus == InitBus /\ [][NextBus]_vars

\* ---- the CPU's AF register, stack pointer and stack operated directly ----
\* words written to AF and pushed, bytes written to F, stack pointers: the
\* bottom of the boot ROM, work RAM, the top of work RAM and of high RAM
CpuInputs ==
    [ af_words |-> {0, 4660, 44016, 65535},
      flag_bytes |-> {15, 90, 240},
      stack_pointers |-> {0, 49154, 53248, 65534},
      pushed_words |-> {4660, 43776} ]

InitCpu ==
    /\ cpu = CPU_new
    /\ bus = Bus_new(BootRomImage, CartRomImage)
    /\ ppu = PPU_new
    /\ panicked = FALSE
    /\ overflow_checks \in BOOLEAN
    /\ last = NoOp

\* cpu.reg_af.write(value)
AfWrite(value) ==
    /\ ~ panicked
    /\ last.count < MaxCpuOps
    /\ cpu' = write(cpu, "reg_af", value)
    /\ last' = Op("af_write", 0, value, 0)
    /\ UNCHANGED <<bus, ppu, panicked, overflow_checks>>

\* cpu.reg_af.write_lower(value)
AfWriteLower(value) ==
    /\ ~ panicked
    /\ last.count < MaxCpuOps
    /\ cpu' = write_subreg(cpu, "F", value)
    /\ last' = Op("af_write_lower", 0, value, 0)
    /\ UNCHANGED <<bus, ppu, panicked, overflow_checks>>

\* cpu.stack_pointer.write(value)
SpWrite(value) ==
    /\ ~ panicked
    /\ last.count < MaxCpuOps
    /\ cpu' = write(cpu, "stack_pointer", value)
    /\ last' = Op("sp_write", 0, value, 0)
    /\ UNCHANGED <<bus, ppu, panicked, overflow_checks>>

\* cpu.push_u16_to_stack(value)
PushU16(value) ==
    /\ ~ panicked
    /\ last.count < MaxCpuOps
    /\ SetMachine(push_u16_to_stack(Machine, value))
    /\ last' = Op("push_u16", 0, value, 0)

\* cpu.pop_u16_from_stack()
PopU16 ==
    /\ ~ panicked
    /\ last.count < MaxCpuOps
    /\ LET popped == pop_u16_from_stack(Machine)
       IN  /\ SetMachine(popped.m)
           /\ last' = Op("pop_u16", 0, 0, popped.v)

NextCpu ==
    \/ \E value \in CpuInputs.af_words : AfWrite(value)
    \/ \E value \in CpuInputs.flag_bytes : AfWriteLower(value)
    \/ \E value \in CpuInputs.stack_pointers : SpWrite(value)
    \/ \E value \in CpuInputs.pushed_words : PushU16(value)
    \/ PopU16

SpecCpu == InitCpu /\ [][NextCpu]_vars

\* ---- single instructions stepped from registers set as the tests set them ----
\* operand bytes at and around the nibble and byte borders
ByteSample == {0, 1, 7, 8, 15, 16, 17, 127, 128, 143, 240, 254, 255}

\* the PPU cycles run before the first step: none, and 23 cycles or one
\* cycle before the end of OAM search, of pixel transfer, of line 0, of line
\* 143 and of the frame
OpCyclesBefore ==
    {0, 57, 79, 229, 251, 433, 455, 144 * 456 - 23, 144 * 456 - 1,
     154 * 456 - 23, 154 * 456 - 1}

\* the PPU after each of these numbers of cycles
OpPpus == [n \in OpCyclesBefore |-> PPU_cycled(PPU_new, n)]

\* what a test writes before it steps: the boot ROM, the registers (A, the
\* flags byte, BC, DE, HL, SP, the public debug field), the byte stored at
\* 0xC000, and the PPU cycles run before the first step
OpSetups ==
    \* INC r and DEC r, every value in every 8-bit register
    { [rom |-> <<op>>, a |-> x, f |-> f, bc |-> x * 257, de |-> x * 257,
       hl |-> x * 257, sp |-> 0, mem |-> 0, cycles |-> 0, debug |-> FALSE] :
        op \in {4, 5, 12, 13, 20, 21, 28, 29, 36, 37, 44, 45, 60, 61},
        x \in Byte, f \in {0, 240} }
    \cup
    \* ADD, SUB and CP with a register, (HL) and d8
    { [rom |-> <<op, b>>, a |-> a, f |-> f, bc |-> b * 257, de |-> b * 257,
       hl |-> IF op \in {134, 150, 190} THEN 49152 ELSE b * 257, sp |-> 0,
       mem |-> b, cycles |-> 0, debug |-> FALSE] :
        op \in (128 .. 135) \cup (144 .. 151) \cup (184 .. 191)
                \cup {198, 214, 254},
        a \in ByteSample, b \in ByteSample, f \in {0, 240} }
    \cup
    \* JR r8 and JR cc,r8 at address 0 and, after a NOP, at address 1
    { [rom |-> pad \o <<op, d>>, a |-> 0, f |-> f, bc |-> 0, de |-> 0,
       hl |-> 0, sp |-> 0, mem |-> 0, cycles |-> 0, debug |-> FALSE] :
        op \in {24, 32, 40, 48, 56}, d \in Byte, f \in {0, 16, 128, 240},
        pad \in {<<>>, <<0>>} }
    \cup
    \* JP a16, JP cc,a16, CALL a16 and LD rr,d16
    { [rom |-> pad \o <<op>> \o d16, a |-> 0, f |-> f, bc |-> 0, de |-> 0,
       hl |-> 0, sp |-> sp, mem |-> 0, cycles |-> 0, debug |-> FALSE] :
        op \in {195, 194, 202, 210, 218, 205, 1, 17, 33, 49},
        d16 \in {<<52, 18>>, <<0, 192>>, <<255, 255>>, <<18, 0>>},
        f \in {0, 16, 128, 240}, sp \in {49154, 53248, 65534},
        pad \in {<<>>, <<0>>} }
    \cup
    \* CB RL r, every value in every 8-bit register
    { [rom |-> <<203, op>>, a |-> x, f |-> f, bc |-> x * 257, de |-> x * 257,
       hl |-> x * 257, sp |-> 0, mem |-> 0, cycles |-> 0, debug |-> FALSE] :
        op \in {16, 17, 18, 19, 20, 21, 23}, x \in Byte, f \in {0, 16, 224, 240} }
    \cup
    \* every first byte, and every second byte after the CB prefix
    { [rom |-> pre \o <<op, 0, 192>>, a |-> 0, f |-> 0, bc |-> 49152,
       de |-> 49152, hl |-> 49152, sp |-> 53246, mem |-> 0, cycles |-> n, debug |-> FALSE] :
        op \in Byte, pre \in {<<>>, <<203>>}, n \in OpCyclesBefore }
    \cup
    \* every first byte, and every second byte after the CB prefix, followed
    \* by two bytes or by none, with and without debug tracing
    { [rom |-> pre \o <<op>> \o post, a |-> 0, f |-> 0, bc |-> 49152,
       de |-> 49152, hl |-> 49152, sp |-> 53246, mem |-> 0, cycles |-> 0,
       debug |-> d] :
        op \in Byte, pre \in {<<>>, <<203>>}, post \in {<<>>, <<0, 192>>},
        d \in BOOLEAN }
    \cup
    \* LDH A,(0x44) twice: LY is read, then read again
    { [rom |-> <<240, 68, 240, 68>>, a |-> a, f |-> 0, bc |-> 0, de |-> 0,
       hl |-> 0, sp |-> 0, mem |-> 0, cycles |-> n, debug |-> FALSE] :
        a \in {0, 255}, n \in OpCyclesBefore }
    \cup
    \* CALL a16 at address 0 or, after a NOP, at address 1, with RET at a16
    { [rom |-> rom, a |-> 0, f |-> f, bc |-> 0, de |-> 0, hl |-> 0,
       sp |-> sp, mem |-> 0, cycles |-> 0, debug |-> FALSE] :
        rom \in { <<205, 4, 0, 0, 201>>, <<205, 3, 0, 201>>,
                  <<0, 205, 5, 0, 0, 201>> },
        f \in {0, 240}, sp \in {49154, 53248, 65534} }
    \cup
    \* XOR A
    { [rom |-> <<175>>, a |-> a, f |-> f, bc |-> 0, de |-> 0, hl |-> 0,
       sp |-> 0, mem |-> 0, cycles |-> 0, debug |-> FALSE] :
        a \in ByteSample, f \in {0, 16, 32, 64, 128, 240} }
    \cup
    \* JP (HL)
    { [rom |-> <<233, 18, 52>>, a |-> 0, f |-> 0, bc |-> 0, de |-> 0,
       hl |-> hl, sp |-> 0, mem |-> mem, cycles |-> 0, debug |-> FALSE] :
        hl \in {0, 2, 4660, 49152}, mem \in ByteSample }
    \cup
    \* PUSH rr, an instruction that overwrites rr, POP rr
    { [rom |-> rom, a |-> v \div 256, f |-> v % 256, bc |-> v, de |-> v,
       hl |-> v, sp |-> sp, mem |-> 0, cycles |-> 0, debug |-> FALSE] :
        rom \in { <<197, 6, 85, 193>>, <<213, 17, 85, 170, 209>>,
                  <<229, 33, 85, 170, 225>>, <<245, 175, 241>> },
        v \in {0, 255, 4660, 44016, 65280, 65535},
        sp \in {49154, 53248, 65534} }

InitOp ==
    /\ \E s \in OpSetups :
        /\ cpu = [CPU_new EXCEPT !.reg_a = s.a, !.flags = s.f, !.reg_bc = s.bc,
                                 !.reg_de = s.de, !.reg_hl = s.hl,
                                 !.stack_pointer = s.sp, !.debug = s.debug]
        /\ bus = Bus_write(Bus_new(s.rom, <<>>), 49152, s.mem)
        /\ ppu = OpPpus[s.cycles]
    /\ panicked = FALSE
    /\ overflow_checks \in BOOLEAN
    /\ last = [NoOp EXCEPT !.first = cpu]

\* cpu.step()
NextOp ==
    /\ last.count < MaxOpSteps
    /\ Step

SpecOp == InitOp /\ [][NextOp]_vars

(***************************************************************************)
(* PPU timing (SpecPPU)                                                    *)
(***************************************************************************)
ModeChanges ==
    { <<"OAM", "PixelTransfer">>, <<"PixelTransfer", "HBlank">>,
      <<"HBlank", "OAM">>, <<"HBlank", "VBlank">>, <<"VBlank", "OAM">> }

\* C1: every change of current_mode made by cycle() is one of OAM->PixelTransfer,
\* PixelTransfer->HBlank, HBlank->OAM, HBlank->VBlank, VBlank->OAM.
C1_ModeOrder ==
    [][ppu'.current_mode # ppu.current_mode
         => <<ppu.current_mode, ppu'.current_mode>> \in ModeChanges]_vars

\* a second frame has begun: all five mode changes have been made
C1_Witness ==
    /\ ppu.cycle_count > 70224
    /\ ppu.current_mode = "PixelTransfer"
    /\ ppu.current_line = 0

\* C2: the mode is VBlank for the first time after 65,664 cycles, in the call
\* that makes LY 144; it stays VBlank for 4,560 cycles and is OAM again after
\* 70,224 cycles, in the call that returns LY to 0; HBlank is left for OAM
\* exactly when the incremented LY is below 144, and for VBlank otherwise.
C2_VBlankSpan ==
    /\ [](/\ ppu.cycle_count < 65664 => ppu.current_mode # "VBlank"
          /\ ppu.cycle_count = 65663 =>
                ppu.current_mode = "HBlank" /\ ppu.current_line = 143
          /\ ppu.cycle_count = 65664 => ppu.current_line = 144
          /\ ppu.cycle_count \in 65664 .. 65664 + 4560 - 1 =>
                ppu.current_mode = "VBlank"
          /\ ppu.cycle_count = 70223 => ppu.current_line = 153
          /\ ppu.cycle_count = 70224 =>
                ppu.current_mode = "OAM" /\ ppu.current_line = 0)
    /\ [][ppu.current_mode = "HBlank" /\ ppu'.current_mode # "HBlank"
            => /\ ppu'.current_mode = "OAM" <=> ppu'.current_line < 144
               /\ ppu'.current_mode = "VBlank" <=> ppu'.current_line >= 144]_vars

\* the first frame is over: VBlank was entered and left
C2_Witness ==
    /\ ppu.cycle_count = 70224
    /\ ppu.current_mode = "OAM"
    /\ ppu.cycles_in_current_mode = 0

\* C3: LY is in 0..153; it is k mod 154 during the 456 cycles that follow the
\* k-th line end, so it takes 0,1,...,153 in order, each for 456 consecutive
\* cycles, and wraps from 153 to 0.
C3_LineCounter ==
    /\ ppu.current_line \in 0 .. 153
    /\ ppu.current_line = (ppu.cycle_count \div 456) % 154
    /\ ppu.cycles_in_current_line = ppu.cycle_count % 456

\* LY is back at 0 after having been 153
C3_Witness ==
    /\ ppu.cycle_count = 70224 + 455
    /\ ppu.current_line = 0

\* C4: on a drawn line the mode is OAM for the first 80 cycles, PixelTransfer
\* for the next 172 and HBlank for the last 204, cycles_in_current_mode counts
\* from 0 within each of them, and it is 0 after every mode change.
C4_DrawnLine ==
    /\ [](ppu.current_line < 144 =>
            LET at == ppu.cycle_count % 456
            IN  /\ at < 80 =>
                     ppu.current_mode = "OAM" /\ ppu.cycles_in_current_mode = at
                /\ at \in 80 .. 251 =>
                     /\ ppu.current_mode = "PixelTransfer"
                     /\ ppu.cycles_in_current_mode = at - 80
                /\ at >= 252 =>
                     /\ ppu.current_mode = "HBlank"
                     /\ ppu.cycles_in_current_mode = at - 252)
    /\ [][ppu'.current_mode # ppu.current_mode
            => ppu'.cycles_in_current_mode = 0]_vars

\* the last cycle of HBlank on the last drawn line of the second frame
C4_Witness ==
    /\ ppu.cycle_count = 70224 + 65663
    /\ ppu.current_line = 143
    /\ ppu.current_mode = "HBlank"
    /\ ppu.cycles_in_current_mode = 203

(***************************************************************************)
(* CPU stepping (Spec)                                                     *)
(***************************************************************************)
\* the last operation was a step() that returned
StepCompleted == last.op = "step" /\ ~ panicked

\* C5: a completed step() calls bus.cycle() as many times as it added to
\* cycle_count, so after completed steps from a fresh CPU the PPU's cycle_count
\* equals the CPU's.
C5_BusCycledPerStep ==
    StepCompleted =>
        /\ ppu.cycle_count - last.ppu.cycle_count
             = cpu.cycle_count - last.cpu.cycle_count
        /\ ppu.cycle_count = cpu.cycle_count

\* a second step has completed and the bus has been cycled
C5_Witness ==
    /\ StepCompleted
    /\ last.count = 2
    /\ last.cpu.cycle_count > 0
    /\ ppu.cycle_count > last.ppu.cycle_count

StepCosts == {4, 8, 12, 16, 24}

\* C6: cycle_count never decreases, and a completed step() increases it by
\* one of 4, 8, 12, 16, 24.
C6_CycleCount ==
    /\ [][cpu'.cycle_count >= cpu.cycle_count]_vars
    /\ [](StepCompleted => cpu.cycle_count - last.cpu.cycle_count \in StepCosts)

\* a completed JR Z, r8 (0x28) that was not taken
C6_Witness ==
    /\ StepCompleted
    /\ cpu.reg_instruction = 40
    /\ ~ cpu.reg_instruction_is_cb
    /\ cpu.cycle_count - last.cpu.cycle_count = 8
    /\ cpu.program_counter = last.cpu.program_counter + 2

\* the byte the step fetched at the program counter it started from
FetchedByte == Bus_read(last.bus, last.ppu, last.cpu.program_counter)

\* C7: a step that fetches 0xCB and completes has consumed the two bytes 0xCB
\* and the second opcode (PC + 2), has added exactly 8 to cycle_count (the
\* prefix charges nothing), and has cycled the bus 8 times.
C7_CbInOneStep ==
    (StepCompleted /\ FetchedByte = 203) =>
        /\ cpu.reg_instruction_is_cb
        /\ cpu.reg_instruction
             = Bus_read(last.bus, last.ppu, last.cpu.program_counter + 1)
        /\ cpu.instruction_address = last.cpu.program_counter + 1
        /\ cpu.program_counter = last.cpu.program_counter + 2
        /\ cpu.cycle_count = last.cpu.cycle_count + 8
        /\ ppu.cycle_count = last.ppu.cycle_count + 8

\* RL C (0xCB 0x11) has completed as the second step
C7_Witness ==
    /\ StepCompleted
    /\ FetchedByte = 203
    /\ cpu.reg_instruction = 17
    /\ last.count = 2

(***************************************************************************)
(* The boot ROM overlay (SpecBus)                                          *)
(***************************************************************************)
\* C8: with the overlay active read(A), A < 0x0100, returns the boot ROM byte
\* at A; after write(0xFF50, 1) the overlay is inactive, and with the overlay
\* inactive read(A) returns the cartridge bank-0 byte at A.
C8_Overlay ==
    /\ (last.op = "read" /\ ~ panicked /\ last.address < 256
          /\ last.bus.boot_rom_active)
        => last.result = last.bus.boot_rom[last.address + 1]
    /\ (last.op = "write" /\ ~ panicked /\ last.address = 65360 /\ last.value = 1)
        => ~ bus.boot_rom_active
    /\ (last.op = "read" /\ ~ panicked /\ last.address < 256
          /\ ~ last.bus.boot_rom_active)
        => last.result = last.bus.cartridge[last.address + 1]

C10_BootRomReadOnly ==
    /\ bus.boot_rom = BootRomImage
    /\ (last.op = "write" /\ last.address < 256 /\ last.bus.boot_rom_active)
        => panicked /\ bus = last.bus

\* a write to the boot ROM region has faulted
C10_Witness ==
    /\ last.op = "write"
    /\ last.address = 255
    /\ last.bus.boot_rom_active
    /\ panicked

\* C11: for every address A of video RAM (0x8000-0x9FFF), work RAM
\* (0xC000-0xDFFF) and high RAM (0xFF80-0xFFFE) and every byte v,
\* write(A, v) completes and a following read(A) returns v.
C11_WritableRegions ==
    (last.op = "write"
        /\ (\/ last.address \in 32768 .. 40959
            \/ last.address \in 49152 .. 57343
            \/ last.address \in 65408 .. 65534))
    => /\ ~ panicked
       /\ ~ Bus_read_panics(bus, last.address)
       /\ Bus_read(bus, ppu, last.address) = last.value

\* C12: every bus read and write at an address in 0x4000-0x7FFF or
\* 0xA000-0xBFFF faults, and it changes no region, no PPU field and not the
\* overlay flag.
C12_UnmappedFaults ==
    (last.op \in {"read", "write"}
        /\ (last.address \in 16384 .. 32767 \/ last.address \in 40960 .. 49151))
    => panicked /\ bus = last.bus /\ ppu = last.ppu

\* after a completed operation a write to the last address of the
\* external RAM range has faulted
C12_Witness ==
    /\ last.op = "write"
    /\ last.address = 49151
    /\ last.count = 2
    /\ panicked

\* C13: a bus write to a cartridge ROM address (0x0100-0x3FFF, and
\* 0x0000-0x3FFF when the overlay is inactive) faults and never changes the
\* bank-0 contents: a later read of the address returns the original byte.
C13_CartridgeReadOnly ==
    /\ bus.cartridge = CartRomImage
    /\ (last.op = "write" /\ last.address < 16384
          /\ (last.address >= 256 \/ ~ last.bus.boot_rom_active))
        => panicked

\* C14: read(0xFF44) returns the PPU's current_line; no bus write, a write
\* to 0xFF44 included, changes current_line; only PPU.cycle() changes it.
C14_LineRegister ==
    /\ (last.op = "read" /\ last.address = IO_LCD_Y_COORDINATE)
        => ~ panicked /\ last.result = ppu.current_line
    /\ last.op = "write" => ppu.current_line = last.ppu.current_line
    /\ (last.op # "new" /\ ppu.current_line # last.ppu.current_line)
        => last.op \in {"cycle", "step"}

\* read(0xFF44) has returned line 1 after the cycle that ended line 0
C14_Witness ==
    /\ last.op = "read"
    /\ last.address = IO_LCD_Y_COORDINATE
    /\ last.count = 2
    /\ last.result = 1
    /\ ~ panicked

C17_StubReads ==
    (last.op = "read" /\ last.address \in {IO_LCD_CONTROL, IO_BOOT_ROM_CONTROL})
    => ~ panicked /\ last.result = 0

\* C18: after AF.write(v), AF.read() is v & 0xFFF0; after AF.write_lower(b),
\* AF.read_lower() is b & 0xF0.
C18_FlagNibbleMasked ==
    /\ last.op = "af_write"
        => read(cpu, "reg_af") = last.value - (last.value % 16)
    /\ last.op = "af_write_lower"
        => read_subreg(cpu, "F") = last.value - (last.value % 16)

\* C19: in every state reachable from a fresh CPU by completed steps, POP AF
\* and the CB rotates included, bits 0-3 of the flags byte are zero.
C19_FlagNibbleZero ==
    ~ panicked => cpu.flags % 16 = 0

\* C20: push_u16(v) with SP = s leaves SP = s - 2 (mod 2^16), the low byte
\* of v at s - 1 and the high byte at s - 2; pop_u16 reads the high byte from
\* [SP] and the low byte from [SP + 1] and leaves SP = SP + 2 (mod 2^16).
C20_StackOrder ==
    /\ (last.op = "push_u16" /\ ~ panicked)
        => /\ cpu.stack_pointer = (last.cpu.stack_pointer + 65534) % 65536
           /\ ~ Bus_read_panics(bus, (last.cpu.stack_pointer + 65535) % 65536)
           /\ Bus_read(bus, ppu, (last.cpu.stack_pointer + 65535) % 65536)
                = last.value % 256
           /\ ~ Bus_read_panics(bus, (last.cpu.stack_pointer + 65534) % 65536)
           /\ Bus_read(bus, ppu, (last.cpu.stack_pointer + 65534) % 65536)
                = last.value \div 256
    /\ (last.op = "pop_u16" /\ ~ panicked)
        => /\ cpu.stack_pointer = (last.cpu.stack_pointer + 2) % 65536
           /\ last.result
                = Bus_read(last.bus, last.ppu, last.cpu.stack_pointer) * 256
                  + Bus_read(last.bus, last.ppu, (last.cpu.stack_pointer + 1) % 65536)

\* with SP set to 0xD000, 0x1234 has been pushed and popped again
C20_Witness ==
    /\ last.op = "pop_u16"
    /\ ~ panicked
    /\ last.count = 3
    /\ last.result = 4660
    /\ cpu.stack_pointer = 53248
    /\ Cell(bus.work_ram.data, 4095) = 52
    /\ Cell(bus.work_ram.data, 4094) = 18

(***************************************************************************)
(* Instructions (SpecOp)                                                   *)
(***************************************************************************)
\* C21: for every register pair rr of BC, DE, HL, AF, every value v held in
\* rr and every SP whose two stack bytes lie in writable RAM, PUSH rr
\* followed, after rr is overwritten, by POP rr restores rr to v and SP to
\* its value before the PUSH, charging 16 and 12 cycles.
C21_PushPopRoundTrip ==
    \A t \in { <<197, 193, "reg_bc">>, <<213, 209, "reg_de">>,
               <<229, 225, "reg_hl">>, <<245, 241, "reg_af">> } :
        (/\ last.op = "step"
         /\ last.count \in 1..3
         /\ bus.boot_rom[1] = t[1]
         /\ bus.boot_rom[Len(bus.boot_rom)] = t[2])
        => /\ ~ panicked
           /\ last.count = 1
                => /\ cpu.reg_instruction = t[1]
                   /\ cpu.cycle_count = last.cpu.cycle_count + 16
           /\ last.count = 3
                => /\ cpu.reg_instruction = t[2]
                   /\ read(cpu, t[3]) = read(last.first, t[3])
                   /\ cpu.stack_pointer = last.first.stack_pointer
                   /\ cpu.cycle_count = last.cpu.cycle_count + 12

\* PUSH AF, XOR A, POP AF has restored AF = 0xABF0 and SP = 0xD000 after
\* XOR A had left A = 0
C21_Witness ==
    /\ StepCompleted
    /\ last.count = 3
    /\ cpu.reg_instruction = 241
    /\ last.cpu.reg_a = 0
    /\ last.cpu.stack_pointer = 53246
    /\ read(cpu, "reg_af") = 44016
    /\ cpu.stack_pointer = 53248

\* the last operation was a step() that fetched the primary opcode op of an
\* instruction whose length bytes all lie in the boot ROM
StepFetched(op, length) ==
    /\ last.op = "step"
    /\ last.cpu.program_counter + length <= Len(last.bus.boot_rom)
    /\ FetchedByte = op

\* the operand bytes that follow the opcode the step fetched
Operand8 == Bus_read(last.bus, last.ppu, last.cpu.program_counter + 1)
Operand16 ==
    Bus_read(last.bus, last.ppu, last.cpu.program_counter + 1)
    + 256 * Bus_read(last.bus, last.ppu, last.cpu.program_counter + 2)

\* C22: CALL a16 executed at address p with SP = s leaves PC = a16
\* (little-endian operand), SP = s - 2, the low byte of p + 3 at s - 1 and its
\* high byte at s - 2, and cycle_count increased by 24.
C22_Call ==
    StepFetched(205, 3)
    => /\ ~ panicked
       /\ cpu.program_counter = Operand16
       /\ cpu.stack_pointer = last.cpu.stack_pointer - 2
       /\ Bus_read(bus, ppu, last.cpu.stack_pointer - 1)
            = (last.cpu.program_counter + 3) % 256
       /\ Bus_read(bus, ppu, last.cpu.stack_pointer - 2)
            = (last.cpu.program_counter + 3) \div 256
       /\ cpu.cycle_count = last.cpu.cycle_count + 24

\* CALL 0x1234 at address 1 with SP = 0xD000 has pushed 0x0004
C22_Witness ==
    /\ StepFetched(205, 3)
    /\ ~ panicked
    /\ last.cpu.program_counter = 1
    /\ cpu.program_counter = 4660
    /\ cpu.stack_pointer = 53246
    /\ Cell(bus.work_ram.data, 4095) = 4
    /\ Cell(bus.work_ram.data, 4094) = 0

\* C23: for each of the targets BC (0x01), DE (0x11), HL (0x21) and SP
\* (0x31), LD rr,d16 sets rr to (second operand byte << 8) | first operand
\* byte, advances PC by 3, adds 12 to cycle_count and leaves the flags
\* unchanged.
C23_LoadImmediate16 ==
    \A t \in { <<1, "reg_bc">>, <<17, "reg_de">>, <<33, "reg_hl">>,
               <<49, "stack_pointer">> } :
        StepFetched(t[1], 3)
        => /\ ~ panicked
           /\ read(cpu, t[2]) = Operand16
           /\ cpu.program_counter = last.cpu.program_counter + 3
           /\ cpu.cycle_count = last.cpu.cycle_count + 12
           /\ cpu.flags = last.cpu.flags

\* C24: for JR r8 and JR cc,r8 (cc in Z, NZ, C, NC) at address p with operand
\* byte d: if the jump is taken PC becomes (p + 2 + signed8(d)) mod 2^16 and
\* 12 cycles are charged; if a conditional jump is not taken PC becomes p + 2
\* and 8 cycles are charged; flags are unchanged in both cases.
C24_JumpRelative ==
    \A t \in { <<24, TRUE>>, <<32, ~ BitSet(last.cpu.flags, 128)>>,
               <<40, BitSet(last.cpu.flags, 128)>>,
               <<48, ~ BitSet(last.cpu.flags, 16)>>,
               <<56, BitSet(last.cpu.flags, 16)>> } :
        StepFetched(t[1], 2)
        => /\ ~ panicked
           /\ cpu.flags = last.cpu.flags
           /\ t[2] => /\ cpu.program_counter
                           = (last.cpu.program_counter + 2 + 65536
                              + (IF Operand8 >= 128 THEN Operand8 - 256 ELSE Operand8))
                             % 65536
                      /\ cpu.cycle_count = last.cpu.cycle_count + 12
           /\ ~ t[2] => /\ cpu.program_counter = last.cpu.program_counter + 2
                        /\ cpu.cycle_count = last.cpu.cycle_count + 8

\* JR NZ,-128 at address 0 has been taken and has wrapped PC to 0xFF82
C24_Witness ==
    /\ StepFetched(32, 2)
    /\ ~ panicked
    /\ Operand8 = 128
    /\ last.cpu.program_counter = 0
    /\ cpu.program_counter = 65410
    /\ cpu.cycle_count = last.cpu.cycle_count + 12

\* C25: JP a16 adds 16 to cycle_count and sets PC to the operand; JP cc,a16
\* adds 16 and sets PC to the operand when the condition holds, else adds 12
\* and leaves PC just past the 3-byte instruction.
C25_JumpAbsolute ==
    \A t \in { <<195, TRUE>>, <<194, ~ BitSet(last.cpu.flags, 128)>>,
               <<202, BitSet(last.cpu.flags, 128)>>,
               <<210, ~ BitSet(last.cpu.flags, 16)>>,
               <<218, BitSet(last.cpu.flags, 16)>> } :
        StepFetched(t[1], 3)
        => /\ ~ panicked
           /\ t[2] => /\ cpu.program_counter = Operand16
                      /\ cpu.cycle_count = last.cpu.cycle_count + 16
           /\ ~ t[2] => /\ cpu.program_counter = last.cpu.program_counter + 3
                        /\ cpu.cycle_count = last.cpu.cycle_count + 12

\* C26: JP (HL) (0xE9) sets PC to the 16-bit value of HL, makes no memory
\* access other than the opcode fetch (so it completes wherever HL points),
\* and adds 4 to cycle_count.
C26_JumpHl ==
    StepFetched(233, 1)
    => /\ ~ panicked
       /\ cpu.program_counter = last.cpu.reg_hl
       /\ cpu.cycle_count = last.cpu.cycle_count + 4

\* the 8-bit register r of CPU c, as a byte of the field that holds it
RegisterByte(c, r) ==
    CASE r = "A" -> c.reg_a
      [] r = "B" -> c.reg_bc \div 256
      [] r = "C" -> c.reg_bc % 256
      [] r = "D" -> c.reg_de \div 256
      [] r = "E" -> c.reg_de % 256
      [] r = "H" -> c.reg_hl \div 256
      [] r = "L" -> c.reg_hl % 256

\* the step changed no 8-bit register other than r, nor SP
OnlyRegisterChanged(r) ==
    /\ \A q \in {"A", "B", "C", "D", "E", "H", "L"} \ {r} :
           RegisterByte(cpu, q) = RegisterByte(last.cpu, q)
    /\ cpu.stack_pointer = last.cpu.stack_pointer

\* C27: INC r, for r in B, C, D, E, H, L, A and every value x of r, leaves
\* (x + 1) mod 256 in r, sets Z iff the result is 0, clears N, sets H iff the
\* low nibble of the result is 0, leaves C and every other register as they
\* were, and adds 4 to cycle_count.
C27_Increment ==
    \A t \in { <<4, "B">>, <<12, "C">>, <<20, "D">>, <<28, "E">>,
               <<36, "H">>, <<44, "L">>, <<60, "A">> } :
        StepFetched(t[1], 1)
        => /\ ~ panicked
           /\ RegisterByte(cpu, t[2]) = (RegisterByte(last.cpu, t[2]) + 1) % 256
           /\ BitSet(cpu.flags, 128) <=> (RegisterByte(cpu, t[2]) = 0)
           /\ ~ BitSet(cpu.flags, 64)
           /\ BitSet(cpu.flags, 32) <=> (RegisterByte(cpu, t[2]) % 16 = 0)
           /\ BitSet(cpu.flags, 16) <=> BitSet(last.cpu.flags, 16)
           /\ OnlyRegisterChanged(t[2])
           /\ cpu.program_counter = last.cpu.program_counter + 1
           /\ cpu.cycle_count = last.cpu.cycle_count + 4

\* INC E has taken E from 0x0F to 0x10 with every flag set before: H stays
\* set, Z and N are cleared, C is kept
C27_Witness ==
    /\ StepFetched(28, 1)
    /\ ~ panicked
    /\ RegisterByte(last.cpu, "E") = 15
    /\ last.cpu.flags = 240
    /\ RegisterByte(cpu, "E") = 16
    /\ cpu.flags = 48

\* C28: DEC r, for r in B, C, D, E, H, L, A and every value x of r, leaves
\* (x - 1) mod 256 in r, sets Z iff the result is 0, sets N, sets H iff the
\* low nibble of the result is 0x0F, leaves C and every other register as
\* they were, and adds 4 to cycle_count.
C28_Decrement ==
    \A t \in { <<5, "B">>, <<13, "C">>, <<21, "D">>, <<29, "E">>,
               <<37, "H">>, <<45, "L">>, <<61, "A">> } :
        StepFetched(t[1], 1)
        => /\ ~ panicked
           /\ RegisterByte(cpu, t[2]) = (RegisterByte(last.cpu, t[2]) + 255) % 256
           /\ BitSet(cpu.flags, 128) <=> (RegisterByte(cpu, t[2]) = 0)
           /\ BitSet(cpu.flags, 64)
           /\ BitSet(cpu.flags, 32) <=> (RegisterByte(cpu, t[2]) % 16 = 15)
           /\ BitSet(cpu.flags, 16) <=> BitSet(last.cpu.flags, 16)
           /\ OnlyRegisterChanged(t[2])
           /\ cpu.program_counter = last.cpu.program_counter + 1
           /\ cpu.cycle_count = last.cpu.cycle_count + 4

\* DEC H has taken H from 0x00 to 0xFF with no flag set before: N and H are
\* set, Z and C are clear
C28_Witness ==
    /\ StepFetched(37, 1)
    /\ ~ panicked
    /\ RegisterByte(last.cpu, "H") = 0
    /\ last.cpu.flags = 0
    /\ RegisterByte(cpu, "H") = 255
    /\ cpu.flags = 96

\* the opcodes of the 8-bit arithmetic group starting at base (0x80 for ADD,
\* 0x90 for SUB) with the immediate form imm, each with the name of its
\* operand, its cycles and its length
ArithmeticForms(base, imm) ==
    { <<base, "B", 4, 1>>, <<base + 1, "C", 4, 1>>, <<base + 2, "D", 4, 1>>,
      <<base + 3, "E", 4, 1>>, <<base + 4, "H", 4, 1>>, <<base + 5, "L", 4, 1>>,
      <<base + 6, "(HL)", 8, 1>>, <<base + 7, "A", 4, 1>>, <<imm, "d8", 8, 2>> }

\* the value of the named operand when the step started
ArithmeticOperand(name) ==
    CASE name = "(HL)" -> Bus_read(last.bus, last.ppu, last.cpu.reg_hl)
      [] name = "d8" -> Operand8
      [] OTHER -> RegisterByte(last.cpu, name)

\* C29: ADD A,r / ADD A,(HL) / ADD A,d8 with accumulator a and operand b
\* (r = A included) leaves (a + b) mod 256 in A, sets Z iff that result is 0,
\* clears N, sets H iff (a & 0x0F) + (b & 0x0F) > 0x0F and C iff a + b > 0xFF,
\* all from the value of A before the addition.
C29_Add ==
    \A t \in ArithmeticForms(128, 198) :
        StepFetched(t[1], t[4])
        => /\ ~ panicked
           /\ cpu.reg_a = (last.cpu.reg_a + ArithmeticOperand(t[2])) % 256
           /\ BitSet(cpu.flags, 128) <=> ((last.cpu.reg_a + ArithmeticOperand(t[2])) % 256 = 0)
           /\ ~ BitSet(cpu.flags, 64)
           /\ BitSet(cpu.flags, 32) <=> ((last.cpu.reg_a % 16) + (ArithmeticOperand(t[2]) % 16) > 15)
           /\ BitSet(cpu.flags, 16) <=> (last.cpu.reg_a + ArithmeticOperand(t[2]) > 255)
           /\ OnlyRegisterChanged("A")
           /\ cpu.program_counter = last.cpu.program_counter + t[4]
           /\ cpu.cycle_count = last.cpu.cycle_count + t[3]

\* ADD A,D with A = 0x10 and D = 0xF0 has left A = 0 with Z and C set and H
\* clear: a carry out of the byte with no carry out of the low nibble
C29_Witness ==
    /\ StepFetched(130, 1)
    /\ ~ panicked
    /\ last.cpu.reg_a = 16
    /\ RegisterByte(last.cpu, "D") = 240
    /\ cpu.reg_a = 0
    /\ cpu.flags = 144

\* C30: SUB r / SUB (HL) / SUB d8 with accumulator a and operand b leaves
\* (a - b) mod 256 in A, sets Z iff a = b, sets N, sets H iff
\* (a & 0x0F) < (b & 0x0F) and C iff a < b.
C30_Sub ==
    \A t \in ArithmeticForms(144, 214) :
        StepFetched(t[1], t[4])
        => /\ ~ panicked
           /\ cpu.reg_a = (last.cpu.reg_a + 256 - ArithmeticOperand(t[2])) % 256
           /\ BitSet(cpu.flags, 128) <=> (last.cpu.reg_a = ArithmeticOperand(t[2]))
           /\ BitSet(cpu.flags, 64)
           /\ BitSet(cpu.flags, 32) <=> ((last.cpu.reg_a % 16) < (ArithmeticOperand(t[2]) % 16))
           /\ BitSet(cpu.flags, 16) <=> (last.cpu.reg_a < ArithmeticOperand(t[2]))
           /\ OnlyRegisterChanged("A")
           /\ cpu.program_counter = last.cpu.program_counter + t[4]
           /\ cpu.cycle_count = last.cpu.cycle_count + t[3]

\* SUB (HL) with A = 0x10 and [HL] = 0x11 has left A = 0xFF with N, H and C
\* set and Z clear
C30_Witness ==
    /\ StepFetched(150, 1)
    /\ ~ panicked
    /\ last.cpu.reg_a = 16
    /\ Bus_read(last.bus, last.ppu, last.cpu.reg_hl) = 17
    /\ cpu.reg_a = 255
    /\ cpu.flags = 112

\* the machine a step leaves when, from the state the last step started in,
\* the opcode at PC is the SUB form of the fetched CP form (0x28 lower: 0x90
\* for 0xB8, ..., 0xD6 for 0xFE)
SubInstead ==
    run_op([cpu |-> last.cpu,
            bus |-> [last.bus EXCEPT !.boot_rom[last.cpu.program_counter + 1] = @ - 40],
            ppu |-> last.ppu, panicked |-> FALSE,
            overflow_checks |-> overflow_checks])

\* C31: for every accumulator value and operand, CP (register, (HL) or d8
\* form) leaves the flag register exactly as the corresponding SUB leaves it
\* from the same state, and leaves A, every other register and memory
\* unchanged.
C31_Compare ==
    \A t \in ArithmeticForms(184, 254) :
        StepFetched(t[1], t[4])
        => /\ ~ panicked
           /\ ~ SubInstead.panicked
           /\ cpu.flags = SubInstead.cpu.flags
           /\ cpu.reg_a = last.cpu.reg_a
           /\ OnlyRegisterChanged("A")
           /\ bus = last.bus
           /\ cpu.program_counter = last.cpu.program_counter + t[4]
           /\ cpu.cycle_count = last.cpu.cycle_count + t[3]

\* CP B with A = 0x10 and B = 0x11 has set N, H and C as SUB B does (which
\* leaves A = 0xFF) and has kept A = 0x10
C31_Witness ==
    /\ StepFetched(184, 1)
    /\ ~ panicked
    /\ last.cpu.reg_a = 16
    /\ RegisterByte(last.cpu, "B") = 17
    /\ cpu.reg_a = 16
    /\ cpu.flags = 112
    /\ SubInstead.cpu.reg_a = 255
    /\ SubInstead.cpu.flags = 112

\* C32: XOR A (0xAF), from any value of A and any prior flag state, leaves
\* A = 0 and the flag register exactly Z = 1, N = 0, H = 0, C = 0.
C32_XorA ==
    StepFetched(175, 1)
    => /\ ~ panicked
       /\ cpu.reg_a = 0
       /\ cpu.flags = 128

\* C33: CB RL r, for r in B, C, D, E, H, L and for A at CB 0x17, with register
\* value x and carry-in c, leaves ((x << 1) | c) mod 256 in r, bit 7 of x in
\* C, Z set iff the new r is 0, N and H clear, every other register as it
\* was, and adds 8 to cycle_count.
C33_RotateLeft ==
    \A t \in { <<16, "B">>, <<17, "C">>, <<18, "D">>, <<19, "E">>,
               <<20, "H">>, <<21, "L">>, <<23, "A">> } :
        (StepFetched(203, 2) /\ Operand8 = t[1])
        => /\ ~ panicked
           /\ RegisterByte(cpu, t[2])
                = (2 * RegisterByte(last.cpu, t[2])
                   + (IF BitSet(last.cpu.flags, 16) THEN 1 ELSE 0)) % 256
           /\ BitSet(cpu.flags, 16) <=> (RegisterByte(last.cpu, t[2]) >= 128)
           /\ BitSet(cpu.flags, 128) <=> (RegisterByte(cpu, t[2]) = 0)
           /\ ~ BitSet(cpu.flags, 64)
           /\ ~ BitSet(cpu.flags, 32)
           /\ OnlyRegisterChanged(t[2])
           /\ cpu.program_counter = last.cpu.program_counter + 2
           /\ cpu.cycle_count = last.cpu.cycle_count + 8

\* the opcodes a table gives an instruction that does something other than
\* panic!("Not implemented")
ImplementedOpcodes(table) ==
    { table[i].opcode :
        i \in { j \in 1 .. Len(table) : table[j].kind # "not_implemented" } }

\* C34: every opcode outside the implemented set is a fault: a step that
\* completes has fetched a first byte with an implemented primary
\* instruction and, after the prefix 0xCB, a second byte with an implemented
\* CB instruction.
C34_UnimplementedFaults ==
    (last.op = "step" /\ ~ panicked)
    => /\ FetchedByte \in ImplementedOpcodes(INSTRUCTIONS_NOCB)
       /\ FetchedByte = 203 => Operand8 \in ImplementedOpcodes(INSTRUCTIONS_CB)

\* a step that fetched 0xFF, an opcode past the end of the instruction vector,
\* has panicked
C34_Witness ==
    /\ last.op = "step"
    /\ last.cpu.program_counter = 0
    /\ last.bus.boot_rom[1] = 255
    /\ panicked

(***************************************************************************)
(* PPU and CPU timing                                                      *)
(***************************************************************************)
\* C35: in every reachable PPU state the mode is VBlank if and only if
\* LY >= 144: the mode and LY cross the 143/144 and the 153/0 boundaries in
\* the same cycle() call.
C35_VBlankIffLine ==
    (ppu.current_mode = "VBlank") <=> (ppu.current_line >= 144)

\* the cycle() call that ends line 143 of the second frame has just moved LY
\* to 144 and the mode to VBlank
C35_Witness ==
    /\ ppu.cycle_count = 70224 + 144 * 456
    /\ ppu.current_line = 144
    /\ ppu.current_mode = "VBlank"
    /\ ppu.cycles_in_current_mode = 0

\* the number of times current_mode changes in n cycle() calls from p
RECURSIVE ModeChangeCount(_, _)
ModeChangeCount(p, n) ==
    IF n <= 0 THEN 0
    ELSE (IF PPU_cycle(p).current_mode # p.current_mode THEN 1 ELSE 0)
         + ModeChangeCount(PPU_cycle(p), n - 1)

\* C36: between the states before and after a completed step(), LY as read
\* at 0xFF44 stays the same or advances by exactly one (mod 154) and the PPU
\* mode changes at most once, the step advancing the PPU by at most 24
\* cycles.
C36_OneLineOneMode ==
    StepCompleted
    => /\ ppu.cycle_count - last.ppu.cycle_count <= 24
       /\ ppu = Bus_cycles(last.ppu, ppu.cycle_count - last.ppu.cycle_count)
       /\ Bus_read(bus, ppu, 65348)
            \in { Bus_read(last.bus, last.ppu, 65348),
                  (Bus_read(last.bus, last.ppu, 65348) + 1) % 154 }
       /\ ModeChangeCount(last.ppu, ppu.cycle_count - last.ppu.cycle_count) <= 1

\* a CALL begun 23 cycles before the end of line 143 has completed with LY
\* advanced to 144 and the mode changed once, from HBlank to VBlank
C36_Witness ==
    /\ StepCompleted
    /\ FetchedByte = 205
    /\ ppu.cycle_count - last.ppu.cycle_count = 24
    /\ Bus_read(last.bus, last.ppu, 65348) = 143
    /\ Bus_read(bus, ppu, 65348) = 144
    /\ last.ppu.current_mode = "HBlank"
    /\ ppu.current_mode = "VBlank"

\* C37: the PPU is advanced only after an instruction's handler has
\* finished: a bus access made by the handler (LDH A,(0x44) reading LY) sees
\* the PPU as the previous step left it, and all of the instruction's cycles
\* have been applied to the PPU when the step returns, before the next fetch.
C37_PpuAfterHandler ==
    /\ StepCompleted
        => ppu = Bus_cycles(last.ppu, cpu.cycle_count - last.cpu.cycle_count)
    /\ (StepFetched(240, 2) /\ Operand8 = 68)
        => /\ ~ panicked
           /\ cpu.reg_a = last.ppu.current_line
           /\ cpu.cycle_count = last.cpu.cycle_count + 12

\* LDH A,(0x44) begun on the last cycle of line 0 has read LY = 0 into A
\* (which held 0xFF), and the step has left the PPU on line 1
C37_Witness ==
    /\ StepFetched(240, 2)
    /\ Operand8 = 68
    /\ ~ panicked
    /\ last.cpu.reg_a = 255
    /\ last.ppu.cycle_count = 455
    /\ cpu.reg_a = 0
    /\ ppu.current_line = 1
    /\ ppu.cycle_count = 467

\* the program in the boot ROM has CALL a16 at address p, preceded only by
\* NOPs, and RET at a16
CallThenRet(p) ==
    /\ Len(last.bus.boot_rom) >= p + 3
    /\ \A i \in 1 .. p : last.bus.boot_rom[i] = 0
    /\ last.bus.boot_rom[p + 1] = 205
    /\ last.bus.boot_rom[p + 3] = 0
    /\ last.bus.boot_rom[p + 2] < Len(last.bus.boot_rom)
    /\ last.bus.boot_rom[last.bus.boot_rom[p + 2] + 1] = 201

\* C38: CALL a16 at address p followed by RET as the first instruction at
\* a16, with the stack bytes in writable RAM, leaves PC = p + 3 and SP as it
\* was before the CALL, having charged 24 + 16 cycles.
C38_CallReturn ==
    \A p \in {0, 1} :
        (last.op = "step" /\ last.count = p + 2 /\ CallThenRet(p))
        => /\ ~ panicked
           /\ cpu.reg_instruction = 201
           /\ cpu.program_counter = p + 3
           /\ cpu.stack_pointer = last.first.stack_pointer
           /\ cpu.cycle_count = 4 * p + 24 + 16
           /\ cpu.flags = last.first.flags

\* NOP, CALL 0x0005, RET with SP = 0xFFFE has returned to address 4 with
\* SP = 0xFFFE after 44 cycles
C38_Witness ==
    /\ last.op = "step"
    /\ last.count = 3
    /\ CallThenRet(1)
    /\ ~ panicked
    /\ last.first.stack_pointer = 65534
    /\ last.cpu.stack_pointer = 65532
    /\ last.cpu.program_counter = 5
    /\ cpu.program_counter = 4
    /\ cpu.stack_pointer = 65534
    /\ cpu.cycle_count = 44

\* the machine the last step would have left had it started with the debug
\* field the other way round
OtherDebug ==
    run_op([cpu |-> [last.cpu EXCEPT !.debug = ~ last.cpu.debug],
            bus |-> last.bus, ppu |-> last.ppu, panicked |-> FALSE,
            overflow_checks |-> overflow_checks])

\* C39: debug tracing is observation-only: from every CPU state and for every
\* instruction, step() with debug = true completes exactly when step() with
\* debug = false completes, and yields identical registers, flags, memory,
\* cycle_count and PPU state.
C39_DebugObservesOnly ==
    last.op = "step"
    => /\ panicked = OtherDebug.panicked
       /\ ~ panicked
            => /\ cpu = [OtherDebug.cpu EXCEPT !.debug = cpu.debug]
               /\ bus = OtherDebug.bus
               /\ ppu = OtherDebug.ppu

====
